---------------------------- MODULE Spec2Model ----------------------------
(***************************************************************************)
(* A model of gammar: per-monitor gamma / brightness / contrast control    *)
(* with global hotkeys, profiles and a keybind recorder.                   *)
(*                                                                         *)
(* Conventions                                                             *)
(*  - A Rust String is a sequence of one-character strings, so that        *)
(*    starts_with, strip_prefix, slicing, join and parse are computed.     *)
(*  - Option<T> is a sequence of length 0 (None) or 1 (Some(x)).           *)
(*  - f32 settings and step sizes are integers counting hundredths         *)
(*    (gamma 1.0 is 100, brightness -1.0 is -100, step 0.05 is 5).         *)
(***************************************************************************)
EXTENDS Integers, Sequences, FiniteSets, TLC

VARIABLES
    call,            \* the pure function under evaluation: [fn, arg, ret, done]
    monitors,        \* App: the monitors signal (enumerate_monitors at start)
    cfg,             \* App: the config signal (AppConfig)
    pc,              \* App: which start-up effect runs next, or "ready"
    keybind_version, \* App: the keybind_version signal
    effect_version,  \* the keybind_version the registration effect last ran for
    registered,      \* the shortcuts the window holds: {[shortcut, action]}
    hotkey_env,      \* what HotKey::from_str rejects and the OS refuses
    rec,             \* KeybindsTab: the four recording signals
    error_msg,       \* SettingsTab: the error_msg signal
    last,            \* what the latest handler did: apply outcome, save attempt
    ops              \* handlers run so far

appVars == <<monitors, cfg, pc, keybind_version, effect_version, registered,
             hotkey_env, rec, error_msg, last, ops>>
vars == <<call, monitors, cfg, pc, keybind_version, effect_version, registered,
          hotkey_env, rec, error_msg, last, ops>>

---------------------------------------------------------------------------
(* Option and sequence helpers *)

None == <<>>
Some(x) == <<x>>
IsSome(o) == Len(o) = 1
Unwrap(o) == o[1]

MinOf(S) == CHOOSE x \in S : \A y \in S : x <= y

\* iter().position(p): the index of the first element satisfying the test
FirstIndex(seq, Test(_)) ==
    LET hits == {i \in 1..Len(seq) : Test(seq[i])}
    IN  IF hits = {} THEN 0 ELSE MinOf(hits)

\* iter().find(p).cloned()
IterFind(seq, Test(_)) ==
    LET i == FirstIndex(seq, Test)
    IN  IF i = 0 THEN None ELSE Some(seq[i])

StartsWith(s, p) == Len(s) >= Len(p) /\ SubSeq(s, 1, Len(p)) = p
StripPrefix(s, p) == SubSeq(s, Len(p) + 1, Len(s))

DigitChars == <<"0", "1", "2", "3", "4", "5", "6", "7", "8", "9">>
DigitSet == {DigitChars[i] : i \in 1..10}
DigitValue(c) == (CHOOSE i \in 1..10 : DigitChars[i] = c) - 1

\* Display / Debug formatting of a usize: decimal, no sign, no leading zero
RECURSIVE ToDigits(_)
ToDigits(n) ==
    IF n < 10 THEN <<DigitChars[n + 1]>>
    ELSE Append(ToDigits(n \div 10), DigitChars[(n % 10) + 1])

\* All sequences over S of length at most n
RECURSIVE SeqsUpTo(_, _)
SeqsUpTo(S, n) ==
    IF n = 0 THEN {<<>>}
    ELSE LET shorter == SeqsUpTo(S, n - 1)
         IN  shorter \cup {Append(s, x) : s \in shorter, x \in S}

NoRet == "pending"

\* The application is not running while a pure function is evaluated
AppDormant ==
    /\ monitors = <<>>
    /\ cfg = <<>>
    /\ pc = "off"
    /\ keybind_version = 0
    /\ effect_version = 0
    /\ registered = {}
    /\ hotkey_env = <<>>
    /\ rec = <<>>
    /\ error_msg = <<>>
    /\ last = <<>>
    /\ ops = 0

\* No pure function is under evaluation while the application runs
NoCall == [fn |-> "none", arg |-> <<>>, ret |-> NoRet, done |-> FALSE]

---------------------------------------------------------------------------
(* windows/display.rs: MonitorInfo and enumerate_monitors *)

MaxMonitors == 3

\* format!("{:?}", hmonitor.0 as usize)
MonitorId(handle) == ToDigits(handle)

\* One record pushed by monitor_enum_proc for a display whose
\* GetMonitorInfoW call succeeded.
MonitorInfoOf(d) ==
    [id |-> MonitorId(d.handle), device_name |-> d.handle, is_primary |-> d.primary]

\* What EnumDisplayMonitors may hand to the callback: distinct handles in
\* any order, at most one flagged primary, GetMonitorInfoW failing or not.
OsEnumerations ==
    {e \in SeqsUpTo([handle : 1..MaxMonitors, primary : BOOLEAN, info_ok : BOOLEAN],
                    MaxMonitors) :
        /\ \A i, j \in 1..Len(e) : i # j => e[i].handle # e[j].handle
        /\ Cardinality({i \in 1..Len(e) : e[i].primary}) <= 1}

IsPrimary(m) == m.is_primary
NotPrimary(m) == ~m.is_primary
InfoOk(d) == d.info_ok

MapSeq(seq, F(_)) == [i \in 1..Len(seq) |-> F(seq[i])]

\* enumerate_monitors: collect, then a stable sort putting primaries first
enumerate_monitors(os) ==
    LET pushed == MapSeq(SelectSeq(os, InfoOk), MonitorInfoOf)
    IN  SelectSeq(pushed, IsPrimary) \o SelectSeq(pushed, NotPrimary)

---------------------------------------------------------------------------
(* tabs/settings.rs: find_monitor *)

find_monitor(list, id) ==
    IF IsSome(id)
    THEN LET Matches(m) == m.id = Unwrap(id)
         IN  IterFind(list, Matches)
    ELSE LET byPrimary == IterFind(list, IsPrimary)
         IN  IF IsSome(byPrimary) THEN byPrimary
             ELSE IF Len(list) > 0 THEN Some(list[1]) ELSE None

\* Ids a caller may ask for: unset, the enumerated ones, one never enumerated
WantedIds ==
    {None, Some(<<>>)} \cup {Some(MonitorId(h)) : h \in 1..(MaxMonitors + 1)}

InitFind ==
    /\ AppDormant
    /\ \E os \in OsEnumerations, id \in WantedIds :
        call = [fn |-> "find_monitor",
                arg |-> [monitors |-> enumerate_monitors(os), id |-> id],
                ret |-> NoRet, done |-> FALSE]

CallFindMonitor ==
    /\ call.fn = "find_monitor"
    /\ ~call.done
    /\ call' = [call EXCEPT !.done = TRUE, !.ret = find_monitor(call.arg.monitors, call.arg.id)]
    /\ UNCHANGED appVars

NextFind == CallFindMonitor

SpecFind == InitFind /\ [][NextFind]_vars

\* C1 (as claimed): find(monitors, Some(id)) with an id no monitor has
\* returns the primary monitor if there is one, else the first monitor,
\* and none only when the list is empty.
C1_NonMatchingIdFallsThrough ==
    (/\ call.fn = "find_monitor"
     /\ call.done
     /\ IsSome(call.arg.id)
     /\ \A i \in 1..Len(call.arg.monitors) :
            call.arg.monitors[i].id # Unwrap(call.arg.id))
    => LET ms == call.arg.monitors
           prim == {i \in 1..Len(ms) : ms[i].is_primary}
       IN  call.ret = IF prim # {} THEN Some(ms[MinOf(prim)])
                      ELSE IF Len(ms) > 0 THEN Some(ms[1])
                      ELSE None

---------------------------------------------------------------------------
(* windows/hotkeys.rs: HotkeyAction *)

UnitKinds ==
    <<"IncreaseGamma", "DecreaseGamma", "IncreaseBrightness", "DecreaseBrightness",
      "IncreaseContrast", "DecreaseContrast", "Reset">>

Unit(kind) == [kind |-> kind, index |-> 0]
LoadProfile(index) == [kind |-> "LoadProfile", index |-> index]

---------------------------------------------------------------------------
(* lib.rs: the action string codec *)

\* The seven literals of action_to_string / string_to_action, in the order
\* of UnitKinds
UnitNames ==
    <<<<"I", "n", "c", "r", "e", "a", "s", "e", "G", "a", "m", "m", "a">>,
      <<"D", "e", "c", "r", "e", "a", "s", "e", "G", "a", "m", "m", "a">>,
      <<"I", "n", "c", "r", "e", "a", "s", "e", "B", "r", "i", "g", "h", "t", "n", "e", "s", "s">>,
      <<"D", "e", "c", "r", "e", "a", "s", "e", "B", "r", "i", "g", "h", "t", "n", "e", "s", "s">>,
      <<"I", "n", "c", "r", "e", "a", "s", "e", "C", "o", "n", "t", "r", "a", "s", "t">>,
      <<"D", "e", "c", "r", "e", "a", "s", "e", "C", "o", "n", "t", "r", "a", "s", "t">>,
      <<"R", "e", "s", "e", "t">>>>

s_LoadProfile_open == <<"L", "o", "a", "d", "P", "r", "o", "f", "i", "l", "e", "(">>

EndsWithChar(s, c) == Len(s) >= 1 /\ s[Len(s)] = c

action_to_string(action) ==
    IF action.kind = "LoadProfile"
    THEN s_LoadProfile_open \o ToDigits(action.index) \o <<")">>
    ELSE UnitNames[CHOOSE i \in 1..Len(UnitKinds) : UnitKinds[i] = action.kind]

RECURSIVE DigitsValue(_)
DigitsValue(ds) ==
    IF Len(ds) = 0 THEN 0
    ELSE 10 * DigitsValue(SubSeq(ds, 1, Len(ds) - 1)) + DigitValue(ds[Len(ds)])

\* str::parse::<usize>: an optional leading '+', then one or more ASCII
\* digits; anything else (empty, a lone sign, '-', another character) is an
\* error.  The strings of this model are too short to exceed usize::MAX.
ParseUsize(s) ==
    LET digits == IF Len(s) >= 2 /\ s[1] = "+" THEN Tail(s) ELSE s
    IN  IF Len(digits) = 0 \/ \E i \in 1..Len(digits) : digits[i] \notin DigitSet
        THEN None
        ELSE Some(DigitsValue(digits))

\* &s[begin..end]: panics unless begin <= end <= len
SliceOutcome(s, begin, end) ==
    IF begin <= end /\ end <= Len(s)
    THEN [panicked |-> FALSE, value |-> SubSeq(s, begin + 1, end)]
    ELSE [panicked |-> TRUE, value |-> <<>>]

\* The LoadProfile arm drops the closing parenthesis test: its slice then
\* runs past the end of "LoadProfile(".
StringToActionNoEndTest(s) ==
    IF \E i \in 1..Len(UnitNames) : UnitNames[i] = s
    THEN [panicked |-> FALSE,
          value |-> Some(Unit(UnitKinds[CHOOSE i \in 1..Len(UnitNames) : UnitNames[i] = s]))]
    ELSE IF StartsWith(s, s_LoadProfile_open)
    THEN LET slice == SliceOutcome(s, 12, Len(s) - 1)
             index == ParseUsize(slice.value)
         IN  IF slice.panicked THEN [panicked |-> TRUE, value |-> None]
             ELSE [panicked |-> FALSE,
                   value |-> IF IsSome(index) THEN Some(LoadProfile(Unwrap(index)))
                             ELSE None]
    ELSE [panicked |-> FALSE, value |-> None]

\* string_to_action, with the outcome of its slice made explicit
StringToActionOutcome(s) ==
    IF \E i \in 1..Len(UnitNames) : UnitNames[i] = s
    THEN [panicked |-> FALSE,
          value |-> Some(Unit(UnitKinds[CHOOSE i \in 1..Len(UnitNames) : UnitNames[i] = s]))]
    ELSE IF StartsWith(s, s_LoadProfile_open) /\ EndsWithChar(s, ")")
    THEN LET slice == SliceOutcome(s, 12, Len(s) - 1)
             index == ParseUsize(slice.value)
         IN  IF slice.panicked THEN [panicked |-> TRUE, value |-> None]
             ELSE [panicked |-> FALSE,
                   value |-> IF IsSome(index) THEN Some(LoadProfile(Unwrap(index)))
                             ELSE None]
    ELSE [panicked |-> FALSE, value |-> None]

string_to_action(s) == StringToActionOutcome(s).value

MaxIndex == 42
MaxTail == 3

CodecActions ==
    {Unit(UnitKinds[i]) : i \in 1..Len(UnitKinds)} \cup {LoadProfile(n) : n \in 0..MaxIndex}

TailAlphabet == {"0", "1", "2", "4", "+", "-", "x", "(", ")"}

\* Keys a persisted keybind map may hold: the unit names, and every short
\* tail after "LoadProfile(", after "LoadProfile", after "Reset" and alone.
CodecStrings ==
    LET tails == SeqsUpTo(TailAlphabet, MaxTail)
    IN  {UnitNames[i] : i \in 1..Len(UnitNames)}
        \cup {s_LoadProfile_open \o t : t \in tails}
        \cup {SubSeq(s_LoadProfile_open, 1, 11) \o t : t \in tails}
        \cup {UnitNames[7] \o t : t \in tails}
        \cup tails

InitCodec ==
    /\ AppDormant
    /\ \/ \E a \in CodecActions :
             call = [fn |-> "encode_decode", arg |-> a, ret |-> NoRet, done |-> FALSE]
       \/ \E s \in CodecStrings :
             call = [fn |-> "decode", arg |-> s, ret |-> NoRet, done |-> FALSE]

CallEncodeDecode ==
    /\ call.fn = "encode_decode"
    /\ ~call.done
    /\ call' = [call EXCEPT !.done = TRUE, !.ret =
                    [encoded |-> action_to_string(call.arg),
                     decoded |-> StringToActionOutcome(action_to_string(call.arg))]]
    /\ UNCHANGED appVars

CallDecode ==
    /\ call.fn = "decode"
    /\ ~call.done
    /\ call' = [call EXCEPT !.done = TRUE, !.ret = StringToActionOutcome(call.arg)]
    /\ UNCHANGED appVars

NextCodec == CallEncodeDecode \/ CallDecode

SpecCodec == InitCodec /\ [][NextCodec]_vars

StrLoadProfile(tail) == s_LoadProfile_open \o tail

\* The strings the decoder is documented to accept: a unit name, or
\* LoadProfile( <optional +> <digits> )
AcceptedShape(s) ==
    \/ \E i \in 1..Len(UnitNames) : UnitNames[i] = s
    \/ /\ Len(s) >= 14
       /\ SubSeq(s, 1, 12) = s_LoadProfile_open
       /\ s[Len(s)] = ")"
       /\ \A i \in 13..(Len(s) - 1) : s[i] \in DigitSet \/ (i = 13 /\ s[i] = "+")
       /\ s[Len(s) - 1] \in DigitSet

C6_DecodeIsInjective ==
    (call.fn = "decode" /\ call.done /\ IsSome(call.ret.value))
        => action_to_string(Unwrap(call.ret.value)) = call.arg

---------------------------------------------------------------------------
(* Key chord normalisation: tabs/keybinds.rs and windows/hotkeys.rs *)

LowerChars ==
    <<"a", "b", "c", "d", "e", "f", "g", "h", "i", "j", "k", "l", "m",
      "n", "o", "p", "q", "r", "s", "t", "u", "v", "w", "x", "y", "z">>
UpperChars ==
    <<"A", "B", "C", "D", "E", "F", "G", "H", "I", "J", "K", "L", "M",
      "N", "O", "P", "Q", "R", "S", "T", "U", "V", "W", "X", "Y", "Z">>

\* char::to_uppercase on the ASCII characters key events carry
UpperChar(c) ==
    IF \E i \in 1..26 : LowerChars[i] = c
    THEN UpperChars[CHOOSE i \in 1..26 : LowerChars[i] = c]
    ELSE c

\* str::to_uppercase
ToUppercase(s) == [i \in 1..Len(s) |-> UpperChar(s[i])]

\* char::is_alphanumeric for a one-byte string
IsAlphanumeric(c) ==
    \/ c \in DigitSet
    \/ \E i \in 1..26 : LowerChars[i] = c \/ UpperChars[i] = c

\* "F1" | "F2" | ... | "F12"
FunctionKeys == {<<"F">> \o ToDigits(n) : n \in 1..12}

\* A match on string literals: the token of the first row whose literal is s
Lookup(table, s) ==
    IF \E i \in 1..Len(table) : table[i][1] = s
    THEN Some(table[CHOOSE i \in 1..Len(table) : table[i][1] = s][2])
    ELSE None

\* tabs/keybinds.rs: the named keys of normalize_key and their tokens
NamedKeys ==
    <<<<<<"A", "r", "r", "o", "w", "U", "p">>, <<"U", "P">>>>,
      <<<<"A", "r", "r", "o", "w", "D", "o", "w", "n">>, <<"D", "O", "W", "N">>>>,
      <<<<"A", "r", "r", "o", "w", "L", "e", "f", "t">>, <<"L", "E", "F", "T">>>>,
      <<<<"A", "r", "r", "o", "w", "R", "i", "g", "h", "t">>, <<"R", "I", "G", "H", "T">>>>,
      <<<<"P", "a", "g", "e", "U", "p">>, <<"P", "A", "G", "E", "U", "P">>>>,
      <<<<"P", "a", "g", "e", "D", "o", "w", "n">>, <<"P", "A", "G", "E", "D", "O", "W", "N">>>>,
      <<<<"H", "o", "m", "e">>, <<"H", "O", "M", "E">>>>,
      <<<<"E", "n", "d">>, <<"E", "N", "D">>>>,
      <<<<"I", "n", "s", "e", "r", "t">>, <<"I", "N", "S", "E", "R", "T">>>>,
      <<<<"D", "e", "l", "e", "t", "e">>, <<"D", "E", "L", "E", "T", "E">>>>,
      <<<<"B", "a", "c", "k", "s", "p", "a", "c", "e">>, <<"B", "A", "C", "K", "S", "P", "A", "C", "E">>>>,
      <<<<"E", "n", "t", "e", "r">>, <<"R", "E", "T", "U", "R", "N">>>>,
      <<<<"T", "a", "b">>, <<"T", "A", "B">>>>,
      <<<<"S", "p", "a", "c", "e">>, <<"S", "P", "A", "C", "E">>>>>>

\* tabs/keybinds.rs: the numeric-pad operator codes and their tokens
NumpadOps ==
    <<<<<<"A", "d", "d">>, <<"N", "u", "m", "p", "a", "d", "P", "L", "U", "S">>>>,
      <<<<"S", "u", "b", "t", "r", "a", "c", "t">>, <<"N", "u", "m", "p", "a", "d", "M", "I", "N", "U", "S">>>>,
      <<<<"M", "u", "l", "t", "i", "p", "l", "y">>, <<"N", "u", "m", "p", "a", "d", "M", "U", "L", "T", "I", "P", "L", "Y">>>>,
      <<<<"D", "i", "v", "i", "d", "e">>, <<"N", "u", "m", "p", "a", "d", "D", "I", "V", "I", "D", "E">>>>,
      <<<<"D", "e", "c", "i", "m", "a", "l">>, <<"N", "u", "m", "p", "a", "d", "D", "E", "C", "I", "M", "A", "L">>>>>>

\* tabs/keybinds.rs: normalize_key
normalize_key(key) ==
    IF key \in FunctionKeys THEN ToUppercase(key)
    ELSE IF Lookup(NamedKeys, key) # None THEN Unwrap(Lookup(NamedKeys, key))
    ELSE IF Len(key) = 1 /\ IsAlphanumeric(key[1]) THEN ToUppercase(key)
    ELSE IF key = <<"+">> THEN <<"P", "L", "U", "S">>
    ELSE IF key = <<"-">> THEN <<"M", "I", "N", "U", "S">>
    ELSE <<>>

\* The logical key is normalised before the physical code is looked at:
\* the numeric-pad 5 then resolves to "5" instead of "Numpad5".
NormalizeLogicalKeyFirst(key, code) ==
    IF normalize_key(key) # <<>> THEN normalize_key(key)
    ELSE IF StartsWith(code, <<"D", "i", "g", "i", "t">>) THEN StripPrefix(code, <<"D", "i", "g", "i", "t">>)
    ELSE IF StartsWith(code, <<"K", "e", "y">>) /\ Len(code) = 4
    THEN ToUppercase(StripPrefix(code, <<"K", "e", "y">>))
    ELSE <<>>

\* tabs/keybinds.rs: normalize_key_with_code
normalize_key_with_code(key, code) ==
    LET numpad_key == StripPrefix(code, <<"N", "u", "m", "p", "a", "d">>)
    IN  IF StartsWith(code, <<"N", "u", "m", "p", "a", "d">>) /\ Len(numpad_key) = 1 /\ numpad_key[1] \in DigitSet
        THEN <<"N", "u", "m", "p", "a", "d">> \o numpad_key
        ELSE IF StartsWith(code, <<"N", "u", "m", "p", "a", "d">>) /\ Lookup(NumpadOps, numpad_key) # None
        THEN Unwrap(Lookup(NumpadOps, numpad_key))
        ELSE IF StartsWith(code, <<"D", "i", "g", "i", "t">>) THEN StripPrefix(code, <<"D", "i", "g", "i", "t">>)
        ELSE IF StartsWith(code, <<"K", "e", "y">>) /\ Len(code) = 4
        THEN ToUppercase(StripPrefix(code, <<"K", "e", "y">>))
        ELSE normalize_key(key)

\* windows/hotkeys.rs: the named keys of normalize_key and their tokens
KeybindConfig_NamedKeys ==
    <<<<<<"A", "r", "r", "o", "w", "U", "p">>, <<"U", "P">>>>,
      <<<<"A", "r", "r", "o", "w", "D", "o", "w", "n">>, <<"D", "O", "W", "N">>>>,
      <<<<"A", "r", "r", "o", "w", "L", "e", "f", "t">>, <<"L", "E", "F", "T">>>>,
      <<<<"A", "r", "r", "o", "w", "R", "i", "g", "h", "t">>, <<"R", "I", "G", "H", "T">>>>,
      <<<<"P", "a", "g", "e", "U", "p">>, <<"P", "A", "G", "E", "U", "P">>>>,
      <<<<"P", "a", "g", "e", "D", "o", "w", "n">>, <<"P", "A", "G", "E", "D", "O", "W", "N">>>>,
      <<<<"H", "o", "m", "e">>, <<"H", "O", "M", "E">>>>,
      <<<<"E", "n", "d">>, <<"E", "N", "D">>>>,
      <<<<"I", "n", "s", "e", "r", "t">>, <<"I", "N", "S", "E", "R", "T">>>>,
      <<<<"D", "e", "l", "e", "t", "e">>, <<"D", "E", "L", "E", "T", "E">>>>,
      <<<<"B", "a", "c", "k", "s", "p", "a", "c", "e">>, <<"B", "A", "C", "K", "S", "P", "A", "C", "E">>>>,
      <<<<"E", "n", "t", "e", "r">>, <<"R", "E", "T", "U", "R", "N">>>>,
      <<<<"T", "a", "b">>, <<"T", "A", "B">>>>,
      <<<<"S", "p", "a", "c", "e">>, <<"S", "P", "A", "C", "E">>>>>>

\* windows/hotkeys.rs: the numeric-pad operator codes and their tokens
KeybindConfig_NumpadOps ==
    <<<<<<"A", "d", "d">>, <<"N", "u", "m", "p", "a", "d", "P", "L", "U", "S">>>>,
      <<<<"S", "u", "b", "t", "r", "a", "c", "t">>, <<"N", "u", "m", "p", "a", "d", "M", "I", "N", "U", "S">>>>,
      <<<<"M", "u", "l", "t", "i", "p", "l", "y">>, <<"N", "u", "m", "p", "a", "d", "M", "U", "L", "T", "I", "P", "L", "Y">>>>,
      <<<<"D", "i", "v", "i", "d", "e">>, <<"N", "u", "m", "p", "a", "d", "D", "I", "V", "I", "D", "E">>>>,
      <<<<"D", "e", "c", "i", "m", "a", "l">>, <<"N", "u", "m", "p", "a", "d", "D", "E", "C", "I", "M", "A", "L">>>>>>

\* windows/hotkeys.rs: normalize_key
KeybindConfig_normalize_key(key) ==
    IF key \in FunctionKeys THEN ToUppercase(key)
    ELSE IF Lookup(KeybindConfig_NamedKeys, key) # None THEN Unwrap(Lookup(KeybindConfig_NamedKeys, key))
    ELSE IF Len(key) = 1 /\ IsAlphanumeric(key[1]) THEN ToUppercase(key)
    ELSE IF key = <<"+">> THEN <<"P", "L", "U", "S">>
    ELSE IF key = <<"-">> THEN <<"M", "I", "N", "U", "S">>
    ELSE <<>>

\* windows/hotkeys.rs: normalize_key_with_code
KeybindConfig_normalize_key_with_code(key, code) ==
    LET numpad_key == StripPrefix(code, <<"N", "u", "m", "p", "a", "d">>)
    IN  IF StartsWith(code, <<"N", "u", "m", "p", "a", "d">>) /\ Len(numpad_key) = 1 /\ numpad_key[1] \in DigitSet
        THEN <<"N", "u", "m", "p", "a", "d">> \o numpad_key
        ELSE IF StartsWith(code, <<"N", "u", "m", "p", "a", "d">>) /\ Lookup(KeybindConfig_NumpadOps, numpad_key) # None
        THEN Unwrap(Lookup(KeybindConfig_NumpadOps, numpad_key))
        ELSE IF StartsWith(code, <<"D", "i", "g", "i", "t">>) THEN StripPrefix(code, <<"D", "i", "g", "i", "t">>)
        ELSE IF StartsWith(code, <<"K", "e", "y">>) /\ Len(code) = 4
        THEN ToUppercase(StripPrefix(code, <<"K", "e", "y">>))
        ELSE KeybindConfig_normalize_key(key)

\* KeyboardEvent.key values a key-down may carry
LogicalKeys ==
    {<<"1">>,
     <<"!">>,
     <<"a">>,
     <<"A">>,
     <<"z">>,
     <<"5">>,
     <<"0">>,
     <<"@">>,
     <<"+">>,
     <<"-">>,
     <<"=">>,
     <<"F", "1">>,
     <<"F", "1", "2">>,
     <<"F", "1", "3">>,
     <<"f", "1">>,
     <<"A", "r", "r", "o", "w", "U", "p">>,
     <<"A", "r", "r", "o", "w", "D", "o", "w", "n">>,
     <<"P", "a", "g", "e", "D", "o", "w", "n">>,
     <<"E", "n", "t", "e", "r">>,
     <<"S", "p", "a", "c", "e">>,
     <<" ">>,
     <<"E", "s", "c", "a", "p", "e">>,
     <<"D", "e", "a", "d">>,
     <<>>}

\* KeyboardEvent.code values a key-down may carry
PhysicalCodes ==
    {<<"D", "i", "g", "i", "t", "1">>,
     <<"D", "i", "g", "i", "t", "0">>,
     <<"D", "i", "g", "i", "t", "5">>,
     <<"K", "e", "y", "A">>,
     <<"K", "e", "y", "Z">>,
     <<"N", "u", "m", "p", "a", "d", "5">>,
     <<"N", "u", "m", "p", "a", "d", "0">>,
     <<"N", "u", "m", "p", "a", "d", "A", "d", "d">>,
     <<"N", "u", "m", "p", "a", "d", "S", "u", "b", "t", "r", "a", "c", "t">>,
     <<"N", "u", "m", "p", "a", "d", "M", "u", "l", "t", "i", "p", "l", "y">>,
     <<"N", "u", "m", "p", "a", "d", "D", "i", "v", "i", "d", "e">>,
     <<"N", "u", "m", "p", "a", "d", "D", "e", "c", "i", "m", "a", "l">>,
     <<"N", "u", "m", "p", "a", "d", "E", "n", "t", "e", "r">>,
     <<"A", "r", "r", "o", "w", "U", "p">>,
     <<"P", "a", "g", "e", "D", "o", "w", "n">>,
     <<"E", "n", "t", "e", "r">>,
     <<"S", "p", "a", "c", "e">>,
     <<"F", "1">>,
     <<"M", "i", "n", "u", "s">>,
     <<"E", "q", "u", "a", "l">>,
     <<"U", "n", "k", "n", "o", "w", "n">>,
     <<>>}

InitNormalize ==
    /\ AppDormant
    /\ \E key \in LogicalKeys, code \in PhysicalCodes :
        call = [fn |-> "normalize", arg |-> [key |-> key, code |-> code],
                ret |-> NoRet, done |-> FALSE]

CallNormalize ==
    /\ call.fn = "normalize"
    /\ ~call.done
    /\ call' = [call EXCEPT !.done = TRUE, !.ret =
                    [ui |-> normalize_key_with_code(call.arg.key, call.arg.code),
                     config |-> KeybindConfig_normalize_key_with_code(call.arg.key,
                                                                       call.arg.code)]]
    /\ UNCHANGED appVars

NextNormalize == CallNormalize

SpecNormalize == InitNormalize /\ [][NextNormalize]_vars

\* The resolution order of the specification, written over whole codes
C7_NumpadOpCodes ==
    <<<<<<"N", "u", "m", "p", "a", "d", "A", "d", "d">>, <<"N", "u", "m", "p", "a", "d", "P", "L", "U", "S">>>>,
      <<<<"N", "u", "m", "p", "a", "d", "S", "u", "b", "t", "r", "a", "c", "t">>, <<"N", "u", "m", "p", "a", "d", "M", "I", "N", "U", "S">>>>,
      <<<<"N", "u", "m", "p", "a", "d", "M", "u", "l", "t", "i", "p", "l", "y">>, <<"N", "u", "m", "p", "a", "d", "M", "U", "L", "T", "I", "P", "L", "Y">>>>,
      <<<<"N", "u", "m", "p", "a", "d", "D", "i", "v", "i", "d", "e">>, <<"N", "u", "m", "p", "a", "d", "D", "I", "V", "I", "D", "E">>>>,
      <<<<"N", "u", "m", "p", "a", "d", "D", "e", "c", "i", "m", "a", "l">>, <<"N", "u", "m", "p", "a", "d", "D", "E", "C", "I", "M", "A", "L">>>>>>

C7_LogicalKey(key) ==
    IF key \in FunctionKeys THEN key
    ELSE IF \E i \in 1..Len(NamedKeys) : NamedKeys[i][1] = key
    THEN NamedKeys[CHOOSE i \in 1..Len(NamedKeys) : NamedKeys[i][1] = key][2]
    ELSE IF \E i \in 1..26 : key = <<LowerChars[i]>> \/ key = <<UpperChars[i]>>
    THEN <<UpperChars[CHOOSE i \in 1..26 : key = <<LowerChars[i]>> \/ key = <<UpperChars[i]>>]>>
    ELSE IF \E d \in DigitSet : key = <<d>> THEN key
    ELSE IF key = <<"+">> THEN <<"P", "L", "U", "S">>
    ELSE IF key = <<"-">> THEN <<"M", "I", "N", "U", "S">>
    ELSE <<>>

C7_Expected(key, code) ==
    IF \E d \in DigitSet : code = <<"N", "u", "m", "p", "a", "d">> \o <<d>> THEN code
    ELSE IF \E i \in 1..5 : C7_NumpadOpCodes[i][1] = code
    THEN C7_NumpadOpCodes[CHOOSE i \in 1..5 : C7_NumpadOpCodes[i][1] = code][2]
    ELSE IF \E d \in DigitSet : code = <<"D", "i", "g", "i", "t">> \o <<d>>
    THEN <<code[6]>>
    ELSE IF \E i \in 1..26 : code = <<"K", "e", "y">> \o <<UpperChars[i]>>
    THEN <<code[4]>>
    ELSE C7_LogicalKey(key)

C7_Examples ==
    {<<<<"1">>, <<"D", "i", "g", "i", "t", "1">>, <<"1">>>>,
     <<<<"!">>, <<"D", "i", "g", "i", "t", "1">>, <<"1">>>>,
     <<<<"a">>, <<"K", "e", "y", "A">>, <<"A">>>>,
     <<<<"5">>, <<"N", "u", "m", "p", "a", "d", "5">>, <<"N", "u", "m", "p", "a", "d", "5">>>>,
     <<<<"A", "r", "r", "o", "w", "U", "p">>, <<"A", "r", "r", "o", "w", "U", "p">>, <<"U", "P">>>>,
     <<<<"@">>, <<"U", "n", "k", "n", "o", "w", "n">>, <<>>>>}

\* C7: normalize(logicalKey, physicalCode) resolves numeric-pad code, then
\* digit-row code, then 4-character letter code, then the normalised logical
\* key, else the empty sentinel; both copies of the function agree with it,
\* and (1,Digit1) -> 1, (!,Digit1) -> 1, (a,KeyA) -> A, (5,Numpad5) ->
\* Numpad5, (ArrowUp,ArrowUp) -> UP, (@,Unknown) -> empty.
C7_NormalizeResolutionOrder ==
    (call.fn = "normalize" /\ call.done)
        => /\ call.ret.ui = C7_Expected(call.arg.key, call.arg.code)
           /\ call.ret.config = C7_Expected(call.arg.key, call.arg.code)
           /\ \A e \in C7_Examples :
                 (call.arg.key = e[1] /\ call.arg.code = e[2]) => call.ret.ui = e[3]

C7_Witness ==
    /\ call.fn = "normalize"
    /\ call.done
    /\ call.arg = [key |-> <<"!">>, code |-> <<"D", "i", "g", "i", "t", "1">>]
    /\ call.ret.ui = <<"1">>

---------------------------------------------------------------------------
(* The configuration aggregate: lib.rs, profiles.rs, windows/display.rs *)

Min2(a, b) == IF a <= b THEN a ELSE b
Max2(a, b) == IF a >= b THEN a ELSE b

\* Comparison variant: another value for the default settings
DefaultSettingsDimmed == [gamma |-> 100, brightness |-> -50, contrast |-> 100]

\* DisplaySettings::default
DefaultSettings == [gamma |-> 100, brightness |-> 0, contrast |-> 100]

\* StepSize::default
DefaultStepSize == [gamma |-> 10, brightness |-> 5, contrast |-> 10]

\* AppConfig::default (derived): empty keybind map, no profile, no monitor id
DefaultConfig ==
    [current_settings |-> DefaultSettings,
     step_size |-> DefaultStepSize,
     keybinds |-> <<>>,
     profiles |-> <<>>,
     selected_monitor_id |-> <<>>]

\* KeybindConfig::new
KeybindConfig(modifiers, key) == [modifiers |-> modifiers, key |-> key]

RECURSIVE Join(_, _)
\* Vec<String>::join
Join(parts, sep) ==
    IF Len(parts) = 0 THEN <<>>
    ELSE IF Len(parts) = 1 THEN parts[1]
    ELSE parts[1] \o sep \o Join(Tail(parts), sep)

\* KeybindConfig::to_shortcut_string
to_shortcut_string(keybind) == Join(Append(keybind.modifiers, keybind.key), <<"+">>)

RECURSIVE Split(_, _)
\* str::split on one character
Split(s, c) ==
    LET hits == {i \in 1..Len(s) : s[i] = c}
    IN  IF hits = {} THEN <<s>>
        ELSE <<SubSeq(s, 1, MinOf(hits) - 1)>> \o Split(SubSeq(s, MinOf(hits) + 1, Len(s)), c)

\* HotKey::from_str(&shortcut).is_ok(): the string is split on '+'; it is
\* rejected when a token is empty or is one the parser does not know.
ParseHotKey(shortcut) ==
    LET tokens == Split(shortcut, "+")
    IN  \A i \in 1..Len(tokens) :
            tokens[i] # <<>> /\ tokens[i] \notin hotkey_env.rejects

\* window().create_shortcut(hotkey, ..).is_ok()
CreateShortcutOk(shortcut) == shortcut \notin hotkey_env.refuses

\* Profile::new
Profile(name, settings) == [name |-> name, settings |-> settings]

\* ProfileManager::add_profile
add_profile(profiles, profile) == Append(profiles, profile)

\* ProfileManager::get_profile indexes the list from 1, missing the first
\* profile and reading one past the last.
GetProfileFromOne(profiles, index) ==
    IF index >= 1 /\ index <= Len(profiles) THEN Some(profiles[index]) ELSE None

\* ProfileManager::get_profile (Vec::get, indices from 0)
get_profile(profiles, index) ==
    IF index < Len(profiles) THEN Some(profiles[index + 1]) ELSE None

\* ProfileManager::remove_profile (Vec::remove shifts the later profiles)
remove_profile(profiles, index) ==
    IF index < Len(profiles)
    THEN SubSeq(profiles, 1, index) \o SubSeq(profiles, index + 2, Len(profiles))
    ELSE profiles

\* apply_display_settings_to_monitor returns Ok(()) or Err(GammaError)
ApplyOutcomes == {"ok", "failed"}

\* What a handler did besides writing the configuration: whether it wrote
\* current_settings, how its gamma apply ended ("none": the handler has no
\* apply step; "skipped": no target monitor was found), for which monitor,
\* and whether it called AppConfig::save.
Did(op, action, committed, apply, target, save) ==
    [op |-> op, action |-> action, committed |-> committed, apply |-> apply,
     target |-> target, save |-> save]

\* The apply step shared by the handlers: find_monitor(.., Some(selected))
\* and, when a monitor is found, one apply whose result is `outcome`
ApplyStep(outcome) ==
    LET monitor == find_monitor(monitors, Some(cfg.selected_monitor_id))
    IN  [apply |-> IF IsSome(monitor) THEN outcome ELSE "skipped",
         target |-> IF IsSome(monitor) THEN Some(Unwrap(monitor).id) ELSE None]

---------------------------------------------------------------------------
(* main.rs: the start-up effects and the registration effect *)

MaxOps == 3
MaxProfiles == 2

\* Comparison variant: the first effect leaves the persisted id alone
StartupKeepsSelection ==
    /\ pc = "select_monitor"
    /\ cfg' = cfg
    /\ last' = Did("select_monitor", None, FALSE, "none", None, FALSE)
    /\ pc' = "initial_apply"
    /\ UNCHANGED <<call, monitors, keybind_version, effect_version, registered,
                   hotkey_env, rec, error_msg, ops>>

\* use_effect 1: initialise selected_monitor_id
StartupSelectMonitor ==
    /\ pc = "select_monitor"
    /\ LET selected_id == cfg.selected_monitor_id
           primary_monitor == find_monitor(monitors, None)
           unset == \/ selected_id = <<>>
                    \/ ~\E i \in 1..Len(monitors) : monitors[i].id = selected_id
       IN  IF unset /\ IsSome(primary_monitor)
           THEN /\ cfg' = [cfg EXCEPT !.selected_monitor_id = Unwrap(primary_monitor).id]
                /\ last' = Did("select_monitor", None, FALSE, "none", None, TRUE)
           ELSE /\ cfg' = cfg
                /\ last' = Did("select_monitor", None, FALSE, "none", None, FALSE)
    /\ pc' = "initial_apply"
    /\ UNCHANGED <<call, monitors, keybind_version, effect_version, registered,
                   hotkey_env, rec, error_msg, ops>>

\* use_effect 2: apply the loaded settings, the result is dropped
StartupApply ==
    /\ pc = "initial_apply"
    /\ \E outcome \in ApplyOutcomes :
          LET step == ApplyStep(outcome)
          IN  last' = Did("initial_apply", None, FALSE, step.apply, step.target, FALSE)
    /\ pc' = "register"
    /\ UNCHANGED <<call, monitors, cfg, keybind_version, effect_version, registered,
                   hotkey_env, rec, error_msg, ops>>

\* The registration loop without remove_all_shortcuts: what was registered
\* before stays registered.
RegisteredKeepingOld(keybinds) ==
    registered \cup
    {[shortcut |-> to_shortcut_string(keybinds[a]), action |-> a] : a \in
        {a \in DOMAIN keybinds :
            /\ ParseHotKey(to_shortcut_string(keybinds[a]))
            /\ CreateShortcutOk(to_shortcut_string(keybinds[a]))}}

\* remove_all_shortcuts, then for every binding: parse the shortcut string
\* (a parse error skips the binding) and create the shortcut (an error is
\* printed and the loop goes on)
RegisteredAfterEffect(keybinds) ==
    {[shortcut |-> to_shortcut_string(keybinds[a]), action |-> a] : a \in
        {a \in DOMAIN keybinds :
            /\ ParseHotKey(to_shortcut_string(keybinds[a]))
            /\ CreateShortcutOk(to_shortcut_string(keybinds[a]))}}

\* use_effect 3: runs once at start and again whenever keybind_version
\* has changed since its last run (config is only peeked)
RegisterKeybinds ==
    /\ \/ pc = "register"
       \/ pc = "ready" /\ effect_version # keybind_version
    /\ registered' = RegisteredAfterEffect(cfg.keybinds)
    /\ effect_version' = keybind_version
    /\ pc' = "ready"
    /\ UNCHANGED <<call, monitors, cfg, keybind_version, hotkey_env, rec, error_msg,
                   last, ops>>

---------------------------------------------------------------------------
(* main.rs: the callback of a registered shortcut *)

\* The match on the action with the .min / .max calls left out
HotkeyEffectUnclamped(action, settings, step, profiles) ==
    CASE action.kind = "IncreaseGamma" ->
            [settings EXCEPT !.gamma = settings.gamma + step.gamma]
      [] action.kind = "DecreaseGamma" ->
            [settings EXCEPT !.gamma = settings.gamma - step.gamma]
      [] action.kind = "IncreaseBrightness" ->
            [settings EXCEPT !.brightness = settings.brightness + step.brightness]
      [] action.kind = "DecreaseBrightness" ->
            [settings EXCEPT !.brightness = settings.brightness - step.brightness]
      [] action.kind = "IncreaseContrast" ->
            [settings EXCEPT !.contrast = settings.contrast + step.contrast]
      [] action.kind = "DecreaseContrast" ->
            [settings EXCEPT !.contrast = settings.contrast - step.contrast]
      [] action.kind = "Reset" -> DefaultSettings
      [] action.kind = "LoadProfile" ->
            LET profile == get_profile(profiles, action.index)
            IN  IF IsSome(profile) THEN Unwrap(profile).settings ELSE settings

\* The match on the action, lines 128-155
HotkeyEffect(action, settings, step, profiles) ==
    CASE action.kind = "IncreaseGamma" ->
            [settings EXCEPT !.gamma = Min2(settings.gamma + step.gamma, 300)]
      [] action.kind = "DecreaseGamma" ->
            [settings EXCEPT !.gamma = Max2(settings.gamma - step.gamma, 10)]
      [] action.kind = "IncreaseBrightness" ->
            [settings EXCEPT !.brightness = Min2(settings.brightness + step.brightness, 100)]
      [] action.kind = "DecreaseBrightness" ->
            [settings EXCEPT !.brightness = Max2(settings.brightness - step.brightness, -100)]
      [] action.kind = "IncreaseContrast" ->
            [settings EXCEPT !.contrast = Min2(settings.contrast + step.contrast, 300)]
      [] action.kind = "DecreaseContrast" ->
            [settings EXCEPT !.contrast = Max2(settings.contrast - step.contrast, 10)]
      [] action.kind = "Reset" -> DefaultSettings
      [] action.kind = "LoadProfile" ->
            LET profile == get_profile(profiles, action.index)
            IN  IF IsSome(profile) THEN Unwrap(profile).settings ELSE settings

HotKeyStates == {"Pressed", "Released"}

\* The callback saves only when the apply step returned Ok
SaveAfterHotkeyOnlyOnOk(apply) == apply = "ok"

\* let _ = cfg.save(): the last statement of the callback, unconditional
SaveAfterHotkey(apply) == TRUE

\* The callback goes on whatever the state of the event
GoesOnAnyState(state) == TRUE

\* if state != HotKeyState::Pressed { return; }
GoesOn(state) == state = "Pressed"

\* The event delivered is recorded as "hotkey" (pressed) or
\* "hotkey_released" (any other state)
HotkeyCallback ==
    /\ ops < MaxOps
    /\ \E b \in registered, state \in HotKeyStates, outcome \in ApplyOutcomes :
          LET op == IF state = "Pressed" THEN "hotkey" ELSE "hotkey_released"
          IN  IF ~GoesOn(state)
              THEN /\ last' = Did(op, None, FALSE, "none", None, FALSE)
                   /\ UNCHANGED <<cfg, ops>>
              ELSE LET settings == HotkeyEffect(b.action, cfg.current_settings,
                                                cfg.step_size, cfg.profiles)
                       step == ApplyStep(outcome)
                   IN  /\ cfg' = [cfg EXCEPT !.current_settings = settings]
                       /\ last' = Did(op, Some(b.action), TRUE, step.apply,
                                      step.target, SaveAfterHotkey(step.apply))
                       /\ ops' = ops + 1
    /\ UNCHANGED <<call, monitors, pc, keybind_version, effect_version, registered,
                   hotkey_env, rec, error_msg>>

---------------------------------------------------------------------------
(* tabs/settings.rs: sliders, reset, step sizes *)

Fields == {"gamma", "brightness", "contrast"}

\* The values an <input type="range"> of the display sliders reports here:
\* its min and its max (0.1 and 3.0, for brightness -1.0 and 1.0)
SliderValues(field) ==
    IF field = "brightness" THEN {-100, 100} ELSE {10, 300}

\* The values a step-size slider can report (min 0.01, max 0.5)
StepSliderValues == {1, 50}

\* apply_settings_update saves only in the Ok arm of its match
SaveAfterSettingsUpdate(apply) == apply = "ok"

\* apply_settings_update: commit, then apply to the found monitor; Ok
\* clears the message and saves, Err sets the message
apply_settings_update(op, settings, outcome) ==
    LET step == ApplyStep(outcome)
    IN  /\ cfg' = [cfg EXCEPT !.current_settings = settings]
        /\ error_msg' = IF step.apply = "ok" THEN None
                        ELSE IF step.apply = "failed" THEN Some("Gamma control error")
                        ELSE error_msg
        /\ last' = Did(op, None, TRUE, step.apply, step.target,
                       SaveAfterSettingsUpdate(step.apply))

\* A display slider's on_change: update_display_setting
SliderEdit ==
    /\ pc = "ready"
    /\ ops < MaxOps
    /\ \E field \in Fields, outcome \in ApplyOutcomes :
          \E value \in SliderValues(field) :
             apply_settings_update("slider",
                                   [cfg.current_settings EXCEPT ![field] = value],
                                   outcome)
    /\ ops' = ops + 1
    /\ UNCHANGED <<call, monitors, pc, keybind_version, effect_version, registered,
                   hotkey_env, rec>>

\* The "Reset to Default" button
UiReset ==
    /\ pc = "ready"
    /\ ops < MaxOps
    /\ \E outcome \in ApplyOutcomes :
          apply_settings_update("ui_reset", DefaultSettings, outcome)
    /\ ops' = ops + 1
    /\ UNCHANGED <<call, monitors, pc, keybind_version, effect_version, registered,
                   hotkey_env, rec>>

\* A step-size slider's on_change: update_step_size
StepSizeEdit ==
    /\ pc = "ready"
    /\ ops < MaxOps
    /\ \E field \in Fields, value \in StepSliderValues :
          cfg' = [cfg EXCEPT !.step_size[field] = value]
    /\ last' = Did("step_size", None, FALSE, "none", None, TRUE)
    /\ ops' = ops + 1
    /\ UNCHANGED <<call, monitors, pc, keybind_version, effect_version, registered,
                   hotkey_env, rec, error_msg>>

---------------------------------------------------------------------------
(* tabs/profiles.rs: save, apply, delete *)

\* What the name input may hold when the button is clicked
ProfileNames == {<<>>, <<"p">>}

\* "Save current settings as profile"
SaveProfile ==
    /\ pc = "ready"
    /\ ops < MaxOps
    /\ Len(cfg.profiles) < MaxProfiles
    /\ \E name \in ProfileNames :
          IF name # <<>>
          THEN /\ cfg' = [cfg EXCEPT !.profiles =
                             add_profile(cfg.profiles, Profile(name, cfg.current_settings))]
               /\ last' = Did("save_profile", None, FALSE, "none", None, TRUE)
          ELSE /\ cfg' = cfg
               /\ last' = Did("save_profile", None, FALSE, "none", None, FALSE)
    /\ ops' = ops + 1
    /\ UNCHANGED <<call, monitors, pc, keybind_version, effect_version, registered,
                   hotkey_env, rec, error_msg>>

\* A profile row's "Apply" button
ApplyProfile ==
    /\ pc = "ready"
    /\ ops < MaxOps
    /\ \E index \in 0..(Len(cfg.profiles) - 1), outcome \in ApplyOutcomes :
          LET profile_settings == cfg.profiles[index + 1].settings
              step == ApplyStep(outcome)
          IN  /\ cfg' = [cfg EXCEPT !.current_settings = profile_settings]
              /\ last' = Did("apply_profile", None, TRUE, step.apply, step.target, TRUE)
    /\ ops' = ops + 1
    /\ UNCHANGED <<call, monitors, pc, keybind_version, effect_version, registered,
                   hotkey_env, rec, error_msg>>

\* A profile row's "Delete" button
DeleteProfile ==
    /\ pc = "ready"
    /\ ops < MaxOps
    /\ \E index \in 0..(Len(cfg.profiles) - 1) :
          cfg' = [cfg EXCEPT !.profiles = remove_profile(cfg.profiles, index)]
    /\ last' = Did("delete_profile", None, FALSE, "none", None, TRUE)
    /\ ops' = ops + 1
    /\ UNCHANGED <<call, monitors, pc, keybind_version, effect_version, registered,
                   hotkey_env, rec, error_msg>>

---------------------------------------------------------------------------
(* The settings specifications *)

\* Comparison variant: the recording flag is left set
IdleRecStillRecording ==
    [editing_action |-> None, recording_keys |-> TRUE,
     captured_modifiers |-> <<>>, captured_key |-> None]

\* The recording signals of KeybindsTab at rest
IdleRec ==
    [editing_action |-> None, recording_keys |-> FALSE,
     captured_modifiers |-> <<>>, captured_key |-> None]

\* One binding per action a callback can be registered for: Ctrl+F<n> for
\* the n-th unit action, Ctrl+<i> for LoadProfile(i), i up to MaxProfiles
\* (an index no profile of this model ever has)
BoundKeybinds ==
    [a \in {Unit(UnitKinds[i]) : i \in 1..Len(UnitKinds)}
           \cup {LoadProfile(i) : i \in 0..MaxProfiles} |->
        IF a.kind = "LoadProfile"
        THEN KeybindConfig(<<<<"C", "t", "r", "l">>>>, ToDigits(a.index))
        ELSE KeybindConfig(<<<<"C", "t", "r", "l">>>>,
                 <<"F">> \o ToDigits(CHOOSE i \in 1..Len(UnitKinds) : UnitKinds[i] = a.kind))]

\* The monitor lists of the settings specifications: no monitor, or the
\* primary monitor alone
SettingsEnumerations ==
    {os \in OsEnumerations :
        /\ Len(os) <= 1
        /\ \A i \in 1..Len(os) : os[i].handle = 1 /\ os[i].info_ok /\ os[i].primary}

\* After use_signal(AppConfig::load) and use_signal(enumerate_monitors):
\* the document holds the default settings, step sizes and profile list,
\* and a binding for every action.
InitSettings ==
    /\ call = NoCall
    /\ \E os \in SettingsEnumerations : monitors = enumerate_monitors(os)
    /\ cfg = [DefaultConfig EXCEPT !.keybinds = BoundKeybinds]
    /\ pc = "select_monitor"
    /\ keybind_version = 0
    /\ effect_version = 0
    /\ registered = {}
    /\ hotkey_env = [rejects |-> {}, refuses |-> {}]
    /\ rec = IdleRec
    /\ error_msg = None
    /\ last = Did("load", None, FALSE, "none", None, FALSE)
    /\ ops = 0

NextSettings ==
    \/ StartupSelectMonitor
    \/ StartupApply
    \/ RegisterKeybinds
    \/ HotkeyCallback
    \/ SliderEdit
    \/ UiReset
    \/ StepSizeEdit
    \/ SaveProfile
    \/ ApplyProfile
    \/ DeleteProfile

SpecSettings == InitSettings /\ [][NextSettings]_vars

\* AppConfig::load of a document whose numbers serde accepts as they are:
\* the defaults, or values below or above every range
LoadedSettings ==
    {DefaultSettings,
     [gamma |-> 5, brightness |-> -150, contrast |-> 5],
     [gamma |-> 400, brightness |-> 150, contrast |-> 400]}

LoadedStepSizes ==
    {DefaultStepSize,
     [gamma |-> -20, brightness |-> -20, contrast |-> -20],
     [gamma |-> 400, brightness |-> 400, contrast |-> 400]}

InitLoaded ==
    /\ call = NoCall
    /\ \E os \in SettingsEnumerations : monitors = enumerate_monitors(os)
    /\ \E settings \in LoadedSettings, step \in LoadedStepSizes :
          cfg = [DefaultConfig EXCEPT !.current_settings = settings,
                                      !.step_size = step,
                                      !.keybinds = BoundKeybinds]
    /\ pc = "select_monitor"
    /\ keybind_version = 0
    /\ effect_version = 0
    /\ registered = {}
    /\ hotkey_env = [rejects |-> {}, refuses |-> {}]
    /\ rec = IdleRec
    /\ error_msg = None
    /\ last = Did("load", None, FALSE, "none", None, FALSE)
    /\ ops = 0

NextLoaded ==
    \/ StartupSelectMonitor
    \/ StartupApply
    \/ RegisterKeybinds
    \/ HotkeyCallback

SpecLoaded == InitLoaded /\ [][NextLoaded]_vars

---------------------------------------------------------------------------
(* Claims about the settings handlers *)

InRange(settings) ==
    /\ settings.gamma >= 10 /\ settings.gamma <= 300
    /\ settings.brightness >= -100 /\ settings.brightness <= 100
    /\ settings.contrast >= 10 /\ settings.contrast <= 300

LastHotkeyKind(kinds) ==
    /\ last.op = "hotkey"
    /\ IsSome(last.action)
    /\ Unwrap(last.action).kind \in kinds

\* C2 (as claimed): whatever settings and step sizes the configuration
\* holds, the field an Increase / Decrease dispatch writes lies inside its
\* range (gamma and contrast [0.1, 3.0], brightness [-1.0, 1.0]).
C2_DispatchWritesInsideRange ==
    /\ LastHotkeyKind({"IncreaseGamma", "DecreaseGamma"})
          => cfg.current_settings.gamma >= 10 /\ cfg.current_settings.gamma <= 300
    /\ LastHotkeyKind({"IncreaseBrightness", "DecreaseBrightness"})
          => cfg.current_settings.brightness >= -100
             /\ cfg.current_settings.brightness <= 100
    /\ LastHotkeyKind({"IncreaseContrast", "DecreaseContrast"})
          => cfg.current_settings.contrast >= 10 /\ cfg.current_settings.contrast <= 300

\* C3: from the default settings, with step sizes and slider inputs inside
\* their UI ranges, every reachable state has gamma in [0.1, 3.0],
\* brightness in [-1.0, 1.0] and contrast in [0.1, 3.0].
C3_SettingsStayInRange == InRange(cfg.current_settings)

\* The second handler is IncreaseGamma with the default step and leaves
\* gamma at 3.0: the slider had put it at 3.0 and the dispatch clamped.
C3_Witness ==
    /\ LastHotkeyKind({"IncreaseGamma"})
    /\ ops = 2
    /\ cfg.step_size.gamma = 10
    /\ cfg.current_settings.gamma = 300

IsLoadProfileStep ==
    /\ ops' = ops + 1
    /\ last'.op = "hotkey"
    /\ Unwrap(last'.action).kind = "LoadProfile"

\* C4: a LoadProfile(i) dispatch with i >= the number of profiles leaves
\* current_settings unchanged and completes (it ends with its save); with
\* i in range it sets current_settings to the settings of the profile
\* stored at index i at that time.
C4_LoadProfileDispatch ==
    [][IsLoadProfileStep =>
          LET i == Unwrap(last'.action).index
          IN  /\ i >= Len(cfg.profiles) => cfg'.current_settings = cfg.current_settings
              /\ i < Len(cfg.profiles) =>
                     cfg'.current_settings = cfg.profiles[i + 1].settings
              /\ cfg'.profiles = cfg.profiles
              /\ last'.save]_vars

\* LoadProfile(1) was dispatched while one profile is stored, and the
\* settings differ from that profile's.
C4_Witness ==
    /\ LastHotkeyKind({"LoadProfile"})
    /\ Unwrap(last.action).index = 1
    /\ Len(cfg.profiles) = 1
    /\ cfg.current_settings # cfg.profiles[1].settings

\* C8 (as claimed): every handler that commits a settings mutation to the
\* configuration attempts a save, whether its gamma apply succeeded, failed
\* or was not attempted.
C8_SaveAfterEveryCommit == last.committed => last.save

C9_Clamp(x, lo, hi) == IF x < lo THEN lo ELSE IF x > hi THEN hi ELSE x

\* The effect table of the specification
C9_NewValue(action, c) ==
    LET s == c.current_settings
        d == c.step_size
    IN  CASE action.kind = "IncreaseGamma" ->
                [s EXCEPT !.gamma = C9_Clamp(s.gamma + d.gamma, 10, 300)]
          [] action.kind = "DecreaseGamma" ->
                [s EXCEPT !.gamma = C9_Clamp(s.gamma - d.gamma, 10, 300)]
          [] action.kind = "IncreaseBrightness" ->
                [s EXCEPT !.brightness = C9_Clamp(s.brightness + d.brightness, -100, 100)]
          [] action.kind = "DecreaseBrightness" ->
                [s EXCEPT !.brightness = C9_Clamp(s.brightness - d.brightness, -100, 100)]
          [] action.kind = "IncreaseContrast" ->
                [s EXCEPT !.contrast = C9_Clamp(s.contrast + d.contrast, 10, 300)]
          [] action.kind = "DecreaseContrast" ->
                [s EXCEPT !.contrast = C9_Clamp(s.contrast - d.contrast, 10, 300)]
          [] action.kind = "Reset" -> [gamma |-> 100, brightness |-> 0, contrast |-> 100]
          [] action.kind = "LoadProfile" ->
                IF action.index < Len(c.profiles)
                THEN c.profiles[action.index + 1].settings
                ELSE s

\* C9: every dispatch on a pressed event ends with a save attempt, whether
\* the apply succeeded, failed or was skipped for want of a monitor, and
\* current_settings holds the new value in all three cases.
C9_HotkeyAlwaysSaves ==
    [][(ops' = ops + 1 /\ last'.op = "hotkey") =>
          /\ last'.save
          /\ last'.apply \in {"ok", "failed", "skipped"}
          /\ last'.apply = "skipped" <=> monitors = <<>>
          /\ cfg'.current_settings = C9_NewValue(Unwrap(last'.action), cfg)]_vars

\* A dispatch whose apply failed saved, and the settings are the new ones
C9_Witness ==
    /\ last.op = "hotkey"
    /\ last.apply = "failed"
    /\ last.save
    /\ cfg.current_settings # DefaultSettings

---------------------------------------------------------------------------
(* tabs/keybinds.rs: recording, cancelling and clearing a binding *)

MaxVersion == 3

s_Ctrl == <<"C", "t", "r", "l">>
s_Shift == <<"S", "h", "i", "f", "t">>
s_Alt == <<"A", "l", "t">>
s_Win == <<"W", "i", "n">>
s_Escape == <<"E", "s", "c", "a", "p", "e">>
s_Control == <<"C", "o", "n", "t", "r", "o", "l">>
s_Meta == <<"M", "e", "t", "a">>

\* An insert that keeps the value of a key already present
MapInsertIfAbsent(map, k, v) ==
    [x \in DOMAIN map \cup {k} |-> IF x \in DOMAIN map THEN map[x] ELSE v]

\* HashMap::insert
MapInsert(map, k, v) == [x \in DOMAIN map \cup {k} |-> IF x = k THEN v ELSE map[x]]

\* A remove that empties the map
MapRemoveAll(map, k) == <<>>

\* HashMap::remove
MapRemove(map, k) ==
    IF DOMAIN map \ {k} = {} THEN <<>> ELSE [x \in DOMAIN map \ {k} |-> map[x]]

\* mods.push(..) without the contains test
PushAlways(mods, m) == Append(mods, m)

\* mods.push(..) unless mods.contains(..)
PushUnique(mods, m) ==
    IF \E i \in 1..Len(mods) : mods[i] = m THEN mods ELSE Append(mods, m)

\* The rows of the table: the seven unit actions and LoadProfile(i) for
\* every stored profile
KeybindRows ==
    {Unit(UnitKinds[i]) : i \in 1..Len(UnitKinds)}
        \cup {LoadProfile(i) : i \in 0..(Len(cfg.profiles) - 1)}

\* The rows the user works on here
EditedActions == {Unit("IncreaseGamma"), Unit("Reset")}

\* The key-down events delivered here, as (key, code)
KeyEvents ==
    {<<s_Escape, s_Escape>>,
     <<s_Control, <<"C", "o", "n", "t", "r", "o", "l", "L", "e", "f", "t">>>>,
     <<s_Meta, <<"M", "e", "t", "a", "L", "e", "f", "t">>>>,
     <<<<"a">>, <<"K", "e", "y", "A">>>>,
     <<<<"!">>, <<"D", "i", "g", "i", "t", "1">>>>,
     <<<<"D", "e", "a", "d">>, <<"Q", "u", "o", "t", "e">>>>}

\* The Edit button of a row that is not being edited
StartEdit ==
    /\ pc = "ready"
    /\ \E action \in EditedActions \cap KeybindRows :
          /\ rec.editing_action # Some(action)
          /\ rec' = [editing_action |-> Some(action), recording_keys |-> TRUE,
                     captured_modifiers |-> <<>>, captured_key |-> None]
    /\ last' = Did("edit", None, FALSE, "none", None, FALSE)
    /\ UNCHANGED <<call, monitors, cfg, pc, keybind_version, effect_version,
                   registered, hotkey_env, error_msg, ops>>

\* The Cancel button of the row that is being edited
CancelEdit ==
    /\ pc = "ready"
    /\ IsSome(rec.editing_action)
    /\ rec' = IdleRec
    /\ last' = Did("cancel", None, FALSE, "none", None, FALSE)
    /\ UNCHANGED <<call, monitors, cfg, pc, keybind_version, effect_version,
                   registered, hotkey_env, error_msg, ops>>

\* No key cancels the recording
IsCancelKeyNever(key) == FALSE

\* if key == "Escape", the first test of handle_key_capture
IsCancelKey(key) == key = s_Escape

\* Every normalised key is taken as a key to bind
IsEmptySentinelNever(normalized_key) == FALSE

\* normalized_key.is_empty()
IsEmptySentinel(normalized_key) == normalized_key = <<>>

\* What one run of handle_key_capture did, with the event it was given
KeyDid(op, key, code, action, save) ==
    [op |-> op, action |-> action, committed |-> FALSE, apply |-> "none",
     target |-> None, save |-> save, event |-> <<key, code>>]

\* handle_key_capture, called by onkeydown of the overlay that is rendered
\* while recording_keys is set
handle_key_capture(key, code) ==
    LET mods == rec.captured_modifiers
        normalized_key == normalize_key_with_code(key, code)
        quiet == KeyDid("key", key, code, None, FALSE)
    IN  IF IsCancelKey(key)
        THEN /\ rec' = IdleRec
             /\ last' = quiet
             /\ UNCHANGED <<cfg, keybind_version>>
        ELSE IF key \in {s_Control, s_Shift, s_Alt, s_Meta}
        THEN /\ rec' = [rec EXCEPT !.captured_modifiers =
                            PushUnique(mods, CASE key = s_Control -> s_Ctrl
                                               [] key = s_Shift -> s_Shift
                                               [] key = s_Alt -> s_Alt
                                               [] key = s_Meta -> s_Win)]
             /\ last' = quiet
             /\ UNCHANGED <<cfg, keybind_version>>
        ELSE IF IsEmptySentinel(normalized_key)
        THEN /\ rec' = [rec EXCEPT !.captured_modifiers = mods]
             /\ last' = quiet
             /\ UNCHANGED <<cfg, keybind_version>>
        ELSE /\ rec' = IdleRec
             /\ IF IsSome(rec.editing_action)
                THEN /\ cfg' = [cfg EXCEPT !.keybinds =
                                   MapInsert(cfg.keybinds, Unwrap(rec.editing_action),
                                             KeybindConfig(mods, normalized_key))]
                     /\ keybind_version' = keybind_version + 1
                     /\ last' = KeyDid("keybind", key, code, rec.editing_action, TRUE)
                ELSE /\ last' = quiet
                     /\ UNCHANGED <<cfg, keybind_version>>

KeyDown ==
    /\ pc = "ready"
    /\ rec.recording_keys
    /\ keybind_version < MaxVersion
    /\ \E e \in KeyEvents : handle_key_capture(e[1], e[2])
    /\ UNCHANGED <<call, monitors, pc, effect_version, registered, hotkey_env,
                   error_msg, ops>>

\* The Clear button of a bound row that is not being edited
ClearKeybind ==
    /\ pc = "ready"
    /\ keybind_version < MaxVersion
    /\ \E action \in EditedActions \cap KeybindRows :
          /\ rec.editing_action # Some(action)
          /\ action \in DOMAIN cfg.keybinds
          /\ cfg' = [cfg EXCEPT !.keybinds = MapRemove(cfg.keybinds, action)]
          /\ last' = Did("clear", Some(action), FALSE, "none", None, TRUE)
    /\ keybind_version' = keybind_version + 1
    /\ UNCHANGED <<call, monitors, pc, effect_version, registered, hotkey_env,
                   rec, error_msg, ops>>

\* What HotKey::from_str and create_shortcut do is the OS's and the
\* parser's: nothing refused, or the Win token unknown to the parser, or
\* the chord Ctrl+A held by another program
HotkeyEnvs ==
    [rejects : {{}, {s_Win}}, refuses : {{}, {s_Ctrl \o <<"+", "A">>}}]

InitKeybinds ==
    /\ call = NoCall
    /\ monitors = enumerate_monitors(<<[handle |-> 1, primary |-> TRUE, info_ok |-> TRUE]>>)
    /\ cfg = DefaultConfig
    /\ pc = "select_monitor"
    /\ keybind_version = 0
    /\ effect_version = 0
    /\ registered = {}
    /\ hotkey_env \in HotkeyEnvs
    /\ rec = IdleRec
    /\ error_msg = None
    /\ last = Did("load", None, FALSE, "none", None, FALSE)
    /\ ops = 0

NextKeybinds ==
    \/ StartupSelectMonitor
    \/ StartupApply
    \/ RegisterKeybinds
    \/ StartEdit
    \/ CancelEdit
    \/ KeyDown
    \/ ClearKeybind

SpecKeybinds == InitKeybinds /\ [][NextKeybinds]_vars

ShortcutOf(a) == to_shortcut_string(cfg.keybinds[a])

EffectHasRun == pc = "ready" /\ effect_version = keybind_version

C10_RegisteredAsOsAllows ==
    /\ \A r \in registered :
          /\ r.action \in DOMAIN cfg.keybinds
          /\ r.shortcut = ShortcutOf(r.action)
          /\ ParseHotKey(r.shortcut)
    /\ \A a \in DOMAIN cfg.keybinds :
          (ParseHotKey(ShortcutOf(a)) /\ ShortcutOf(a) \notin hotkey_env.refuses)
              <=> [shortcut |-> ShortcutOf(a), action |-> a] \in registered

---------------------------------------------------------------------------
(* windows/display.rs: the ramp build of apply_display_settings_to_monitor *)

\* let mut ramp = [0u16; 768]
RampLen == 768

\* for i in 0..256
RampInputs == 256

\* u16::MAX, the 65535.0 of the build
U16Max == 65535

\* (i as f32 / 255.0).powf(1.0 / gamma), in 255ths.  With gamma = 1.0 the
\* power is the base itself; 0 and 1 are fixed by every exponent; otherwise
\* the power lies between the base and 1 (gamma > 1) or between 0 and the
\* base (gamma < 1), and any of the two ends or the middle is taken.
PowfOutcomes(i, gamma) ==
    IF gamma = 100 \/ i = 0 \/ i = 255 THEN {i}
    ELSE IF gamma > 100 THEN {i, (i + 255) \div 2, 255}
    ELSE {0, i \div 2, i}

\* (p - 0.5) * contrast + 0.5 + brightness for p = k / 255, times 51000
RampAdjusted(k, settings) ==
    (2 * k - 255) * settings.contrast + 25500 + 510 * settings.brightness

\* What the f32 roundings of the expression can add to its exact value,
\* counted in 3400ths of a ramp step (0.05 of a step bounds them)
FloatErrors == {-170, 0, 170}

\* .clamp(0.0, 1.0) * 65535.0, in 3400ths: 65535 / 51000 = 4369 / 3400
RampScaled(k, settings, err) ==
    LET exact == RampAdjusted(k, settings)
    IN  IF exact <= 0 THEN 0
        ELSE IF exact >= 51000 THEN U16Max * 3400
        ELSE Max2(0, Min2(U16Max * 3400, exact * 4369 + err))

\* `as u16` on an f32: truncation towards zero, saturating
AsU16(scaled) == Max2(0, Min2(U16Max, scaled \div 3400))

\* The three writes of one iteration land on the next channel's slot
RampSlotsShifted(i) == <<i, i + 257, i + 513>>

\* ramp[i], ramp[i + 256], ramp[i + 512]
RampSlots(i) == <<i, i + 256, i + 512>>

RampGammas == {10, 100, 300}
RampBrightnesses == {-100, -50, 0, 50, 100}
RampContrasts == {10, 50, 100, 300}

InitRamp ==
    /\ AppDormant
    /\ \E g \in RampGammas, b \in RampBrightnesses, c \in RampContrasts :
          call = [fn |-> "ramp",
                  arg |-> [gamma |-> g, brightness |-> b, contrast |-> c],
                  ret |-> [i |-> 0, k |-> 0, slots |-> <<>>, value |-> 0,
                           panicked |-> FALSE],
                  done |-> FALSE]

\* One iteration of the loop: the value of input i and its three writes
\* (an index past the array panics)
RampIteration ==
    /\ call.fn = "ramp"
    /\ ~call.done
    /\ LET i == call.ret.i
       IN  \E k \in PowfOutcomes(i, call.arg.gamma), err \in FloatErrors :
              LET value == AsU16(RampScaled(k, call.arg, err))
                  slots == RampSlots(i)
                  panics == \E n \in 1..3 : slots[n] >= RampLen
              IN  call' = [call EXCEPT
                              !.ret = [i |-> IF panics THEN i ELSE i + 1,
                                       k |-> k,
                                       slots |-> IF panics THEN <<>> ELSE slots,
                                       value |-> value,
                                       panicked |-> panics],
                              !.done = panics \/ i + 1 = RampInputs]
    /\ UNCHANGED appVars

NextRamp == RampIteration

SpecRamp == InitRamp /\ [][NextRamp]_vars

RampWritten == call.fn = "ramp" /\ call.ret.slots # <<>>

\* C11: for settings inside their ranges the build never panics and runs
\* through all 256 inputs; input i writes one value, between 0 and 65535,
\* to the red, green and blue entries i, i + 256 and i + 512 of the 768.
C11_RampChannelsEqualInRange ==
    call.fn = "ramp" =>
        /\ ~call.ret.panicked
        /\ call.done <=> call.ret.i = 256
        /\ RampWritten =>
              /\ call.ret.slots = <<call.ret.i - 1, call.ret.i - 1 + 256,
                                    call.ret.i - 1 + 512>>
              /\ \A n \in 1..3 : call.ret.slots[n] \in 0..767
              /\ call.ret.value \in 0..65535

\* The last input, with brightness +1 and contrast at its upper bound, has
\* written 65535 to the entries 255, 511 and 767.
C11_Witness ==
    /\ call.fn = "ramp"
    /\ call.done
    /\ call.arg = [gamma |-> 10, brightness |-> 100, contrast |-> 300]
    /\ call.ret.slots = <<255, 511, 767>>
    /\ call.ret.value = 65535

\* round(clamp(adjusted, 0, 1) * 65535) for gamma = 1, in exact arithmetic
C12_Rounded(i, settings) ==
    LET exact == RampAdjusted(i, settings)
        clamped == IF exact < 0 THEN 0 ELSE IF exact > 51000 THEN 51000 ELSE exact
    IN  (2 * clamped * 4369 + 3400) \div 6800

\* C12 (as claimed): with gamma = 1 every entry is the nearest integer to
\* clamp((i/255 - 0.5) * contrast + 0.5 + brightness, 0, 1) * 65535, and
\* with brightness 0 and contrast 1 it is 257 * i.
C12_EntryIsRounded ==
    (RampWritten /\ call.arg.gamma = 100) =>
        /\ call.ret.value = C12_Rounded(call.ret.i - 1, call.arg)
        /\ (call.arg.brightness = 0 /\ call.arg.contrast = 100)
              => call.ret.value = 257 * (call.ret.i - 1)

---------------------------------------------------------------------------
(* lib.rs: AppConfig::load and deserialize_keybinds *)

MaxEntries == 3

\* Key strings of the "keybinds" object of a persisted document
LoadKeys ==
    {UnitNames[1], UnitNames[7],
     StrLoadProfile(<<"1", ")">>), StrLoadProfile(<<"+", "1", ")">>),
     StrLoadProfile(<<"x", ")">>), <<"B", "o", "g", "u", "s">>}

LoadConfigs == {KeybindConfig(<<s_Ctrl>>, <<"A">>), KeybindConfig(<<>>, <<"F", "1">>)}

\* HashMap<String, KeybindConfig>::deserialize: the entries of the object
StringMaps ==
    UNION {[K -> LoadConfigs] : K \in {K \in SUBSET LoadKeys : Cardinality(K) <= MaxEntries}}

\* The other fields of a document
LoadedRest ==
    {[current_settings |-> DefaultSettings, step_size |-> DefaultStepSize,
      profiles |-> <<>>, selected_monitor_id |-> <<>>],
     [current_settings |-> [gamma |-> 250, brightness |-> -20, contrast |-> 150],
      step_size |-> [gamma |-> 20, brightness |-> 10, contrast |-> 5],
      profiles |-> <<Profile(<<"p">>, [gamma |-> 80, brightness |-> 0, contrast |-> 100])>>,
      selected_monitor_id |-> <<"7">>]}

\* What load finds at config_path(): no file, a file it cannot read, text
\* serde_json rejects, or a document
ConfigFiles ==
    {[kind |-> k, keybinds |-> <<>>, rest |-> r] :
        k \in {"absent", "unreadable", "unparsable"},
        r \in {CHOOSE r \in LoadedRest : r.profiles = <<>>}}
    \cup {[kind |-> "document", keybinds |-> m, rest |-> r] :
             m \in StringMaps, r \in LoadedRest}

\* deserialize_keybinds: every entry whose key decodes is inserted under its
\* action, in the iteration order of the string map; of the entries that
\* decode to one action the last one inserted stays.
deserialize_keybinds(string_map) ==
    LET decoding == {k \in DOMAIN string_map : IsSome(string_to_action(k))}
        actions == {Unwrap(string_to_action(k)) : k \in decoding}
    IN  IF actions = {} THEN {<<>>}
        ELSE {keybinds \in [actions -> LoadConfigs] :
                 \A a \in actions :
                     \E k \in decoding : /\ string_to_action(k) = Some(a)
                                         /\ keybinds[a] = string_map[k]}

\* AppConfig::load
AppConfig_load(file) ==
    IF file.kind # "document" THEN {DefaultConfig}
    ELSE {[current_settings |-> file.rest.current_settings,
           step_size |-> file.rest.step_size,
           keybinds |-> keybinds,
           profiles |-> file.rest.profiles,
           selected_monitor_id |-> file.rest.selected_monitor_id] :
             keybinds \in deserialize_keybinds(file.keybinds)}

InitLoad ==
    /\ AppDormant
    /\ \E file \in ConfigFiles :
          call = [fn |-> "load", arg |-> file, ret |-> NoRet, done |-> FALSE]

CallLoad ==
    /\ call.fn = "load"
    /\ ~call.done
    /\ \E config \in AppConfig_load(call.arg) :
          call' = [call EXCEPT !.done = TRUE, !.ret = config]
    /\ UNCHANGED appVars

NextLoad == CallLoad

SpecLoad == InitLoad /\ [][NextLoad]_vars

\* C13 (as claimed): load returns the default aggregate when the file is
\* absent, unreadable or unparsable; from a document it keeps every field
\* other than the keybinds as persisted, drops the keybind entries whose key
\* is not an action encoding and keeps every other entry.
C13_LoadKeepsRecognisedEntries ==
    (call.fn = "load" /\ call.done) =>
        IF call.arg.kind # "document" THEN call.ret = DefaultConfig
        ELSE /\ call.ret.current_settings = call.arg.rest.current_settings
             /\ call.ret.step_size = call.arg.rest.step_size
             /\ call.ret.profiles = call.arg.rest.profiles
             /\ call.ret.selected_monitor_id = call.arg.rest.selected_monitor_id
             /\ \A k \in DOMAIN call.arg.keybinds :
                   IsSome(string_to_action(k)) =>
                       LET a == Unwrap(string_to_action(k))
                       IN  /\ a \in DOMAIN call.ret.keybinds
                           /\ call.ret.keybinds[a] = call.arg.keybinds[k]
             /\ \A a \in DOMAIN call.ret.keybinds :
                   \E k \in DOMAIN call.arg.keybinds : string_to_action(k) = Some(a)

---------------------------------------------------------------------------
(* A slider edit in its two accesses of the configuration signal, and the
   hotkey callback delivered by the same event loop *)

\* The callback is delivered whatever the UI handler is doing
EventLoopDeliversAnytime == TRUE

\* config is a use_signal signal: it lives on the thread of the window's
\* event loop, which calls one handler or shortcut callback at a time and
\* takes the next event when that one has returned
EventLoopIdle == call.fn = "none"

\* update_display_setting, first half: copy current_settings (one read
\* borrow) and let the closure set its field in the copy
UiReadSettings ==
    /\ pc = "ready"
    /\ ops < MaxOps
    /\ EventLoopIdle
    /\ \E field \in Fields :
          \E value \in SliderValues(field) :
             call' = [fn |-> "update_display_setting",
                      arg |-> [field |-> field, value |-> value],
                      ret |-> [cfg.current_settings EXCEPT ![field] = value],
                      done |-> FALSE]
    /\ UNCHANGED appVars

\* update_display_setting, second half: apply_settings_update writes the
\* whole copy back (one write borrow), applies and saves
UiWriteBack ==
    /\ call.fn = "update_display_setting"
    /\ \E outcome \in ApplyOutcomes : apply_settings_update("slider", call.ret, outcome)
    /\ call' = NoCall
    /\ ops' = ops + 1
    /\ UNCHANGED <<monitors, pc, keybind_version, effect_version, registered,
                   hotkey_env, rec>>

\* The shortcut callback as the event loop calls it
HotkeyDispatch ==
    /\ EventLoopIdle
    /\ HotkeyCallback

NextSerial ==
    \/ StartupSelectMonitor
    \/ StartupApply
    \/ RegisterKeybinds
    \/ UiReadSettings
    \/ UiWriteBack
    \/ HotkeyDispatch

SpecSerial == InitSettings /\ [][NextSerial]_vars

---------------------------------------------------------------------------
(* Claims about the recorder of the keybinds tab *)

ModifierKeys == {s_Control, s_Shift, s_Alt, s_Meta}

ModifierNames == {s_Ctrl, s_Shift, s_Alt, s_Win}

ModifierNameOf(key) ==
    CASE key = s_Control -> s_Ctrl
      [] key = s_Shift -> s_Shift
      [] key = s_Alt -> s_Alt
      [] key = s_Meta -> s_Win

\* A step of the overlay's onkeydown: the registration effect and the
\* start-up effects are the only other steps that leave `last` alone
KeyStep ==
    /\ last'.op \in {"key", "keybind"}
    /\ pc' = pc
    /\ effect_version' = effect_version
    /\ rec.recording_keys

EventKey == last'.event[1]

EventChord == C7_Expected(last'.event[1], last'.event[2])

IsPlainKey == EventKey # s_Escape /\ EventKey \notin ModifierKeys

InSeq(seq, x) == \E i \in 1..Len(seq) : seq[i] = x

\* C15: in Recording(action, mods) a key that is neither Escape nor a
\* modifier and whose normalised chord is not empty puts action -> {mods in
\* the order accumulated, normalised key} into the map (replacing a binding
\* the action had), saves, makes the re-registration due, and leaves the
\* recorder idle with no accumulated modifier.
C15_CommitBinding ==
    [][(KeyStep /\ IsPlainKey /\ EventChord # <<>> /\ IsSome(rec.editing_action)) =>
          LET action == Unwrap(rec.editing_action)
          IN  /\ DOMAIN cfg'.keybinds = DOMAIN cfg.keybinds \cup {action}
              /\ cfg'.keybinds[action] =
                     [modifiers |-> rec.captured_modifiers, key |-> EventChord]
              /\ last'.save
              /\ keybind_version' = keybind_version + 1
              /\ effect_version' # keybind_version'
              /\ rec' = [editing_action |-> <<>>, recording_keys |-> FALSE,
                         captured_modifiers |-> <<>>, captured_key |-> <<>>]]_vars

\* Shift+1 on the digit row, after Meta and Control: the binding is
\* Win+Ctrl+1 and the recorder is idle.
C15_Witness ==
    /\ last.op = "keybind"
    /\ last.event = <<<<"!">>, <<"D", "i", "g", "i", "t", "1">>>>
    /\ cfg.keybinds[Unwrap(last.action)] =
           [modifiers |-> <<s_Win, s_Ctrl>>, key |-> <<"1">>]
    /\ ~rec.recording_keys
    /\ rec.captured_modifiers = <<>>

\* C16: in Recording an Escape event leaves the recorder idle with no
\* accumulated modifier, the keybind map unchanged, no save and no
\* re-registration due that was not due before; no binding ever has Escape
\* as its key.
C16_EscapeCancels ==
    /\ [](\A a \in DOMAIN cfg.keybinds :
              cfg.keybinds[a].key \notin {s_Escape, ToUppercase(s_Escape)})
    /\ [][(KeyStep /\ EventKey = s_Escape) =>
              /\ rec' = [editing_action |-> <<>>, recording_keys |-> FALSE,
                         captured_modifiers |-> <<>>, captured_key |-> <<>>]
              /\ cfg' = cfg
              /\ ~last'.save
              /\ keybind_version' = keybind_version]_vars

\* Escape was pressed during the recording of a second binding: the
\* recorder is idle and the map still holds the one binding.
C16_Witness ==
    /\ last.op = "key"
    /\ last.event[1] = s_Escape
    /\ ~rec.recording_keys
    /\ rec.editing_action = <<>>
    /\ rec.captured_modifiers = <<>>
    /\ keybind_version = 1
    /\ Cardinality(DOMAIN cfg.keybinds) = 1

\* C17: in Recording a modifier key-down keeps the recorder recording the
\* same action and appends Ctrl / Shift / Alt / Win to the accumulated
\* modifiers only if it is absent; the accumulated modifiers never hold a
\* duplicate or another name.
C17_ModifiersAccumulate ==
    /\ [](/\ \A i, j \in 1..Len(rec.captured_modifiers) :
                i # j => rec.captured_modifiers[i] # rec.captured_modifiers[j]
          /\ \A i \in 1..Len(rec.captured_modifiers) :
                rec.captured_modifiers[i] \in ModifierNames)
    /\ [][(KeyStep /\ EventKey \in ModifierKeys) =>
              /\ rec'.recording_keys
              /\ rec'.editing_action = rec.editing_action
              /\ rec'.captured_modifiers =
                     IF InSeq(rec.captured_modifiers, ModifierNameOf(EventKey))
                     THEN rec.captured_modifiers
                     ELSE Append(rec.captured_modifiers, ModifierNameOf(EventKey))
              /\ cfg' = cfg
              /\ keybind_version' = keybind_version]_vars

\* Control was reported after Meta: the recorder still records and holds
\* Win, Ctrl in that order.
C17_Witness ==
    /\ last.op = "key"
    /\ last.event[1] = s_Control
    /\ rec.recording_keys
    /\ IsSome(rec.editing_action)
    /\ rec.captured_modifiers = <<s_Win, s_Ctrl>>

\* C18: in Recording a key that is neither Escape nor a modifier and whose
\* normalised chord is empty changes nothing: same action, same accumulated
\* modifiers, same keybind map, no save, no re-registration.
C18_EmptyChordIgnored ==
    [][(KeyStep /\ IsPlainKey /\ EventChord = <<>>) =>
          /\ rec' = rec
          /\ cfg' = cfg
          /\ ~last'.save
          /\ keybind_version' = keybind_version]_vars

\* A dead key was pressed after Control: the recorder still records with
\* Ctrl accumulated.
C18_Witness ==
    /\ last.op = "key"
    /\ last.event[1] = <<"D", "e", "a", "d">>
    /\ rec.recording_keys
    /\ IsSome(rec.editing_action)
    /\ rec.captured_modifiers = <<s_Ctrl>>

OthersKept(action) ==
    /\ DOMAIN cfg'.keybinds \ {action} = DOMAIN cfg.keybinds \ {action}
    /\ \A b \in DOMAIN cfg.keybinds \ {action} : cfg'.keybinds[b] = cfg.keybinds[b]

\* C19: the keybind map changes only by a commit or a clear; a commit for
\* an action binds it to the committed chord, a clear of an action leaves
\* it absent, and either leaves the binding of every other action as it
\* was (so an action is bound to its latest commit unless a clear came
\* after it).
C19_OneBindingPerAction ==
    [][/\ (KeyStep /\ last'.op = "keybind") =>
             /\ Unwrap(last'.action) \in DOMAIN cfg'.keybinds
             /\ cfg'.keybinds[Unwrap(last'.action)] =
                    [modifiers |-> rec.captured_modifiers, key |-> EventChord]
             /\ OthersKept(Unwrap(last'.action))
       /\ (last'.op = "clear" /\ keybind_version' = keybind_version + 1) =>
             /\ Unwrap(last'.action) \in DOMAIN cfg.keybinds
             /\ Unwrap(last'.action) \notin DOMAIN cfg'.keybinds
             /\ OthersKept(Unwrap(last'.action))
       /\ (keybind_version' = keybind_version) => cfg'.keybinds = cfg.keybinds]_vars

\* Reset was bound and then cleared while IncreaseGamma stays bound.
C19_Witness ==
    /\ last.op = "clear"
    /\ last.action = <<Unit("Reset")>>
    /\ keybind_version = MaxVersion
    /\ Unit("Reset") \notin DOMAIN cfg.keybinds
    /\ Unit("IncreaseGamma") \in DOMAIN cfg.keybinds

\* C20: an event of a registered shortcut that is not the pressed
\* transition leaves the configuration as it was, applies nothing and saves
\* nothing.
C20_ReleasedIgnored ==
    [][(last'.op = "hotkey_released" /\ pc' = pc /\ effect_version' = effect_version) =>
          /\ cfg' = cfg
          /\ ops' = ops
          /\ error_msg' = error_msg
          /\ last'.apply = "none"
          /\ ~last'.committed
          /\ ~last'.save]_vars

\* A released event came after a handler had changed the settings.
C20_Witness ==
    /\ last.op = "hotkey_released"
    /\ ops = 1
    /\ cfg.current_settings # DefaultSettings

---------------------------------------------------------------------------
(* apply_display_settings_to_monitor: the device context and the one
   attempt (display.rs 153-182) *)

MaxApplies == 3

\* HDC::is_invalid: the value CreateDCW returns when it fails
InvalidHdc == 0

\* The values GetLastError may hold (0: no error recorded)
OsErrorCodes == {0, 5, 87}

ApplyMonitorNames == {<<"A">>, <<"B">>}

\* Comparison variant: a handle is never taken as invalid
IsInvalidNever(hdc) == FALSE

\* hdc.is_invalid()
IsInvalid(hdc) == hdc = InvalidHdc

\* Comparison variant: DeleteDC leaves the context open
DeleteDCKeepsOpen(open, hdc) == open

\* DeleteDC(hdc): the context is no longer open
DeleteDC(open, hdc) == open \ {hdc}

GammaErrorCreateDC(name) == [ok |-> FALSE, cause |-> "create_dc", name |-> name, code |-> 0]

GammaErrorSetRamp(name, error_code) ==
    [ok |-> FALSE, cause |-> "set_ramp", name |-> name, code |-> error_code]

ApplyOk == [ok |-> TRUE, cause |-> "none", name |-> <<>>, code |-> 0]

\* The frame of one call: where it is, what it holds, and what it has asked
\* of the OS so far
ApplyFrame(open, last_error, calls) ==
    [step |-> "create", open |-> open, hdc |-> InvalidHdc, acquired |-> FALSE,
     ramp_calls |-> 0, ramp_result |-> 0, ramp_on_invalid |-> FALSE,
     deletes |-> 0, last_error |-> last_error, calls |-> calls,
     result |-> ApplyOk]

InitApply ==
    /\ AppDormant
    /\ \E name \in ApplyMonitorNames, err \in OsErrorCodes :
          call = [fn |-> "apply", arg |-> [name |-> name],
                  ret |-> ApplyFrame({}, err, 1), done |-> FALSE]

ApplyAt(step) == call.fn = "apply" /\ ~call.done /\ call.ret.step = step

\* let hdc = CreateDCW(device_name, ..): a new context, or the invalid
\* handle with an error recorded
ApplyCreateDC ==
    /\ ApplyAt("create")
    /\ \E created \in BOOLEAN, err \in OsErrorCodes \ {0} :
          call' = [call EXCEPT
                      !.ret.step = "check",
                      !.ret.hdc = IF created THEN call.ret.calls ELSE InvalidHdc,
                      !.ret.acquired = created,
                      !.ret.open = IF created THEN @ \cup {call.ret.calls} ELSE @,
                      !.ret.last_error = IF created THEN @ ELSE err]
    /\ UNCHANGED appVars

\* if hdc.is_invalid() { return Err(..) }
ApplyCheckHdc ==
    /\ ApplyAt("check")
    /\ IF IsInvalid(call.ret.hdc)
       THEN call' = [call EXCEPT !.ret.step = "returned",
                                 !.ret.result = GammaErrorCreateDC(call.arg.name),
                                 !.done = TRUE]
       ELSE call' = [call EXCEPT !.ret.step = "set_ramp"]
    /\ UNCHANGED appVars

\* let result = SetDeviceGammaRamp(hdc.0, ramp): accepted, or rejected with
\* an error recorded (or none: the call does not promise one)
ApplySetDeviceGammaRamp ==
    /\ ApplyAt("set_ramp")
    /\ \E accepted \in BOOLEAN, err \in OsErrorCodes :
          call' = [call EXCEPT
                      !.ret.step = "delete",
                      !.ret.ramp_calls = @ + 1,
                      !.ret.ramp_on_invalid = ~call.ret.acquired,
                      !.ret.ramp_result =
                          IF accepted /\ call.ret.acquired THEN 1 ELSE 0,
                      !.ret.last_error =
                          IF (accepted /\ call.ret.acquired) \/ err = 0 THEN @ ELSE err]
    /\ UNCHANGED appVars

\* let _ = DeleteDC(hdc)
ApplyDeleteDC ==
    /\ ApplyAt("delete")
    /\ call' = [call EXCEPT !.ret.step = "result",
                            !.ret.deletes = @ + 1,
                            !.ret.open = DeleteDC(@, call.ret.hdc)]
    /\ UNCHANGED appVars

\* if result != 0 { return Ok(()) }; GetLastError(); Err(..)
ApplyReturn ==
    /\ ApplyAt("result")
    /\ call' = [call EXCEPT
                   !.ret.step = "returned",
                   !.ret.result =
                       IF call.ret.ramp_result # 0
                       THEN ApplyOk
                       ELSE GammaErrorSetRamp(call.arg.name, call.ret.last_error),
                   !.done = TRUE]
    /\ UNCHANGED appVars

\* The caller applies again (another slider move, another hotkey)
ApplyAgain ==
    /\ call.fn = "apply"
    /\ call.done
    /\ call.ret.calls < MaxApplies
    /\ \E name \in ApplyMonitorNames :
          call' = [fn |-> "apply", arg |-> [name |-> name],
                   ret |-> ApplyFrame(call.ret.open, call.ret.last_error,
                                      call.ret.calls + 1),
                   done |-> FALSE]
    /\ UNCHANGED appVars

NextApply ==
    \/ ApplyCreateDC
    \/ ApplyCheckHdc
    \/ ApplySetDeviceGammaRamp
    \/ ApplyDeleteDC
    \/ ApplyReturn
    \/ ApplyAgain

SpecApply == InitApply /\ [][NextApply]_vars

\* C21: when apply has returned, a device context that was acquired has
\* been released exactly once and no release was issued when the
\* acquisition failed, whether the ramp was accepted or rejected; so no
\* device context is open after any sequence of applies.
C21_DeviceContextReleased ==
    call.done =>
        /\ call.ret.deletes = (IF call.ret.acquired THEN 1 ELSE 0)
        /\ call.ret.open = {}

\* The third apply has returned after a rejected ramp, with its context
\* released.
C21_Witness ==
    /\ call.done
    /\ call.ret.calls = MaxApplies
    /\ call.ret.acquired
    /\ call.ret.ramp_calls = 1
    /\ call.ret.ramp_result = 0
    /\ call.ret.deletes = 1
    /\ call.ret.open = {}

\* C22: apply attempts once.  A failed acquisition returns the error of
\* that cause and the ramp-set call is not invoked; a rejected ramp-set
\* returns another error, carrying the code GetLastError reports; the result
\* is Ok exactly when the one ramp-set call was accepted; the ramp-set call
\* is never invoked twice in one apply.
C22_SingleAttempt ==
    /\ call.ret.ramp_calls <= 1
    /\ ~call.ret.ramp_on_invalid
    /\ call.done =>
          /\ ~call.ret.acquired =>
                /\ call.ret.ramp_calls = 0
                /\ call.ret.result = GammaErrorCreateDC(call.arg.name)
          /\ (call.ret.acquired /\ call.ret.ramp_result = 0) =>
                /\ call.ret.ramp_calls = 1
                /\ call.ret.result.cause = "set_ramp"
                /\ call.ret.result.cause # GammaErrorCreateDC(call.arg.name).cause
                /\ call.ret.result.code = call.ret.last_error
          /\ call.ret.result.ok <=>
                (call.ret.ramp_calls = 1 /\ call.ret.ramp_result # 0)

\* A failed acquisition after a rejected ramp: the error names the device
\* context and no ramp-set was tried in this apply.
C22_Witness ==
    /\ call.done
    /\ call.ret.calls = 2
    /\ ~call.ret.acquired
    /\ call.ret.ramp_calls = 0
    /\ call.ret.result.cause = "create_dc"
    /\ call.ret.last_error = 87

---------------------------------------------------------------------------
(* Consistency of the recorder's four signals *)

\* C23: the recording flag is set exactly when a target action is set;
\* when the recorder is idle the accumulated modifiers are empty and no key
\* is captured; an Edit click during a recording makes the clicked row the
\* one target, with no modifier accumulated.
C23_RecorderConsistent ==
    /\ [](/\ rec.recording_keys <=> IsSome(rec.editing_action)
          /\ Len(rec.editing_action) <= 1
          /\ ~rec.recording_keys =>
                 rec.captured_modifiers = <<>> /\ rec.captured_key = <<>>)
    /\ [][(last'.op = "edit" /\ pc' = pc /\ effect_version' = effect_version
              /\ rec' # rec) =>
             /\ rec'.recording_keys
             /\ IsSome(rec'.editing_action)
             /\ rec'.editing_action # rec.editing_action
             /\ rec'.captured_modifiers = <<>>
             /\ rec'.captured_key = <<>>]_vars

\* Edit of the Reset row was clicked after a binding had been committed:
\* Reset is the target and nothing is accumulated.
C23_Witness ==
    /\ last.op = "edit"
    /\ keybind_version = 1
    /\ rec.recording_keys
    /\ rec.editing_action = <<Unit("Reset")>>
    /\ rec.captured_modifiers = <<>>
    /\ Unit("IncreaseGamma") \in DOMAIN cfg.keybinds

---------------------------------------------------------------------------
(* What a dispatch leaves alone *)

IsDispatchStep == ops' = ops + 1 /\ last'.op = "hotkey"

\* C24: a dispatch of any action leaves the keybind map, the step sizes,
\* the profile list and the selected monitor id as they were, and a Reset
\* dispatch sets current_settings to gamma 1.0, brightness 0.0, contrast 1.0.
C24_DispatchChangesOnlySettings ==
    [][IsDispatchStep =>
          /\ cfg'.keybinds = cfg.keybinds
          /\ cfg'.step_size = cfg.step_size
          /\ cfg'.profiles = cfg.profiles
          /\ cfg'.selected_monitor_id = cfg.selected_monitor_id
          /\ DOMAIN cfg' = DOMAIN cfg
          /\ Unwrap(last'.action).kind = "Reset" =>
                 cfg'.current_settings =
                     [gamma |-> 100, brightness |-> 0, contrast |-> 100]]_vars

\* Reset was dispatched after the settings had been changed and saved as a
\* profile: the settings are the default, the profile is still there.
C24_Witness ==
    /\ last.op = "hotkey"
    /\ last.action = <<Unit("Reset")>>
    /\ ops = 3
    /\ cfg.current_settings = [gamma |-> 100, brightness |-> 0, contrast |-> 100]
    /\ Len(cfg.profiles) = 1
    /\ cfg.profiles[1].settings.gamma # 100

---------------------------------------------------------------------------
(* Chords shared by two actions *)

\* C25: after any sequence of commits and clears no two distinct actions of
\* the keybind map are bound to the same chord (same modifiers, same key).
C25_NoSharedChord ==
    \A a, b \in DOMAIN cfg.keybinds :
        a # b => cfg.keybinds[a] # cfg.keybinds[b]

---------------------------------------------------------------------------
(* Start-up with a persisted selected_monitor_id *)

\* What enumerate_monitors may find here: up to two monitors
StartupEnumerations ==
    {os \in OsEnumerations :
        /\ Len(os) <= 2
        /\ \A i \in 1..Len(os) : os[i].handle <= 2}

\* The selected_monitor_id of the loaded file: none, the id of a monitor
\* that may be attached, or the id of one that is not
PersistedMonitorIds == {<<>>, MonitorId(1), MonitorId(2), MonitorId(9)}

InitStartup ==
    /\ call = NoCall
    /\ \E os \in StartupEnumerations : monitors = enumerate_monitors(os)
    /\ \E id \in PersistedMonitorIds :
          cfg = [DefaultConfig EXCEPT
                    !.selected_monitor_id = id,
                    !.keybinds = [a \in {Unit("Reset"), Unit("IncreaseGamma")} |->
                                     BoundKeybinds[a]]]
    /\ pc = "select_monitor"
    /\ keybind_version = 0
    /\ effect_version = 0
    /\ registered = {}
    /\ hotkey_env = [rejects |-> {}, refuses |-> {}]
    /\ rec = IdleRec
    /\ error_msg = None
    /\ last = Did("load", None, FALSE, "none", None, FALSE)
    /\ ops = 0

\* onchange of the monitor select: the value of one of its options
SelectMonitor ==
    /\ pc = "ready"
    /\ ops < MaxOps
    /\ \E i \in 1..Len(monitors) :
          cfg' = [cfg EXCEPT !.selected_monitor_id = monitors[i].id]
    /\ last' = Did("select", None, FALSE, "none", None, TRUE)
    /\ ops' = ops + 1
    /\ UNCHANGED <<call, monitors, pc, keybind_version, effect_version, registered,
                   hotkey_env, rec, error_msg>>

NextStartup ==
    \/ StartupSelectMonitor
    \/ StartupApply
    \/ RegisterKeybinds
    \/ HotkeyCallback
    \/ SliderEdit
    \/ SelectMonitor

SpecStartup == InitStartup /\ [][NextStartup]_vars

MonitorIds == {monitors[i].id : i \in 1..Len(monitors)}

PrimaryIds == {monitors[i].id : i \in {j \in 1..Len(monitors) : monitors[j].is_primary}}

\* C26: the first effect replaces a selected_monitor_id that is empty or
\* names no enumerated monitor, when there is a monitor, by the id of the
\* primary monitor, else of the first, and saves; it leaves an id that
\* names a monitor alone.  After it, with a monitor attached, the id names
\* an enumerated monitor, and every apply is made on the monitor of that id.
C26_SelectedMonitor ==
    /\ [][(pc = "select_monitor" /\ pc' # pc) =>
             IF cfg.selected_monitor_id \in MonitorIds \/ monitors = <<>>
             THEN cfg' = cfg /\ ~last'.save
             ELSE /\ cfg' = [cfg EXCEPT !.selected_monitor_id = cfg'.selected_monitor_id]
                  /\ cfg'.selected_monitor_id \in MonitorIds
                  /\ PrimaryIds # {} => cfg'.selected_monitor_id \in PrimaryIds
                  /\ PrimaryIds = {} => cfg'.selected_monitor_id = monitors[1].id
                  /\ last'.save]_vars
    /\ []((pc # "select_monitor" /\ monitors # <<>>) =>
             cfg.selected_monitor_id \in MonitorIds)
    /\ []((pc # "select_monitor" /\ last.apply \in {"ok", "failed"}) =>
             last.target = <<cfg.selected_monitor_id>>)
    /\ []((pc # "select_monitor" /\ last.apply = "skipped") => monitors = <<>>)

\* A hotkey applied on the second of two monitors, the one the user
\* selected after the start-up.
C26_Witness ==
    /\ Len(monitors) = 2
    /\ monitors[1].is_primary
    /\ last.op = "hotkey"
    /\ last.apply = "ok"
    /\ last.target = <<monitors[2].id>>
    /\ cfg.selected_monitor_id = monitors[2].id
    /\ ops = 2

=============================================================================
